---- MODULE Spec2Model ----
(***************************************************************************)
(* A model of the download core of bili_downloader:                        *)
(*   - the stream selectors and get_stream_url (download/video_downloader) *)
(*   - the chunked downloaders download_stream and                         *)
(*     DownloadThread._download_stream_with_progress                       *)
(*   - merge_video_audio                                                   *)
(*   - the two coordinators, DownloadThread.run/_download (GUI, with a     *)
(*     cancel flag set from the GUI thread) and download_video_async (CLI) *)
(* The metadata provider, the HTTP transport, the file system's rename and *)
(* the ffmpeg process are the environment: every answer they can give is a *)
(* nondeterministic choice from a small set.                               *)
(***************************************************************************)
EXTENDS Integers, Sequences, FiniteSets, TLC

(***************************************************************************)
(* Bounds of the model.                                                    *)
(***************************************************************************)
\* the largest Content-Length the transport reports (0 = unknown)
MaxTotal == 2
\* the largest real length of a stream, in bytes
MaxStream == 2
\* the largest chunk download_chunk returns
MaxChunk == 2
\* the largest number of pages getInfo reports, and the largest page asked for
MaxPages == 2
\* the longest dash_data["video"] list the selectors are applied to
MaxVideos == 3
\* the longest dash_data["audio"] list the selectors are applied to
MaxAudios == 2
\* the largest number of pieces a url given to parse_video_url is made of
MaxPieces == 4
\* the longest name sanitize_filename is applied to
MaxName == 6
\* the max_length sanitize_filename is applied with
MaxLength == 5
\* the longest title and the longest part name of an item
MaxTitle == 2
\* the number of start requests the window is given
MaxStarts == 6

(***************************************************************************)
(* Python values.                                                          *)
(***************************************************************************)
\* Python's None (for an optional dict or an optional stream)
None == [none |-> TRUE]

\* no value yet: the function has not been applied
NotApplied == [not_applied |-> TRUE]

\* the value of an integer key that the dict does not hold
Missing == -1

\* dict.get(key, default) for an integer key
Get(v, default) == IF v = Missing THEN default ELSE v

\* the sentinel rank of an unknown quality id or codec
Sentinel == 999

Min(a, b) == IF a <= b THEN a ELSE b

(***************************************************************************)
(* Strings that the code inspects are sequences of one-character strings.  *)
(***************************************************************************)
UpperAlpha == <<"A","B","C","D","E","F","G","H","I","J","K","L","M",
                "N","O","P","Q","R","S","T","U","V","W","X","Y","Z">>
LowerAlpha == <<"a","b","c","d","e","f","g","h","i","j","k","l","m",
                "n","o","p","q","r","s","t","u","v","w","x","y","z">>

\* str.lower() of one character
LowerChar(c) ==
    IF \E i \in 1..Len(UpperAlpha) : UpperAlpha[i] = c
    THEN LowerAlpha[CHOOSE i \in 1..Len(UpperAlpha) : UpperAlpha[i] = c]
    ELSE c

\* str.lower()
Lower(s) == [i \in 1..Len(s) |-> LowerChar(s[i])]

\* needle in hay
Contains(hay, needle) ==
    \E i \in 0..(Len(hay) - Len(needle)) :
        SubSeq(hay, i + 1, i + Len(needle)) = needle

\* str.upper() of one character
UpperChar(c) ==
    IF \E i \in 1..Len(LowerAlpha) : LowerAlpha[i] = c
    THEN UpperAlpha[CHOOSE i \in 1..Len(LowerAlpha) : LowerAlpha[i] = c]
    ELSE c

\* str.upper()
Upper(s) == [i \in 1..Len(s) |-> UpperChar(s[i])]

Digits == <<"0","1","2","3","4","5","6","7","8","9">>

\* \d
IsDigit(c) == \E i \in 1..Len(Digits) : Digits[i] = c

\* [a-zA-Z]
IsLetter(c) ==
    \E i \in 1..Len(UpperAlpha) : UpperAlpha[i] = c \/ LowerAlpha[i] = c

\* [a-zA-Z0-9]
IsAlnum(c) == IsLetter(c) \/ IsDigit(c)

\* the characters str.strip() removes
Whitespace == {" ", "\t", "\n", "\r"}

RECURSIVE LStrip(_, _)
LStrip(s, chars) ==
    IF s # <<>> /\ Head(s) \in chars THEN LStrip(Tail(s), chars) ELSE s

RECURSIVE RStrip(_, _)
RStrip(s, chars) ==
    IF s # <<>> /\ s[Len(s)] \in chars
    THEN RStrip(SubSeq(s, 1, Len(s) - 1), chars)
    ELSE s

\* str.strip(chars)
Strip(s, chars) == RStrip(LStrip(s, chars), chars)

\* str.startswith(prefix)
StartsWith(s, prefix) ==
    Len(s) >= Len(prefix) /\ SubSeq(s, 1, Len(prefix)) = prefix

\* 1 + str.find for a set of characters: the first position of s that holds one
\* of chars, 0 when none does
FirstOf(s, chars) ==
    IF \E i \in 1..Len(s) : s[i] \in chars
    THEN CHOOSE i \in 1..Len(s) : s[i] \in chars /\ \A j \in 1..(i - 1) : s[j] \notin chars
    ELSE 0

\* s[i:]
From(s, i) == SubSeq(s, i, Len(s))

\* the value of a string of decimal digits
RECURSIVE DigitsValue(_)
DigitsValue(d) ==
    IF d = <<>> THEN 0
    ELSE 10 * DigitsValue(SubSeq(d, 1, Len(d) - 1))
         + (CHOOSE i \in 1..Len(Digits) : Digits[i] = d[Len(d)]) - 1

\* int(s): surrounding whitespace and one sign are allowed; IntOk is "no ValueError"
IntBody(s) ==
    LET t == Strip(s, Whitespace)
    IN  IF t # <<>> /\ Head(t) \in {"+", "-"} THEN Tail(t) ELSE t

IntOk(s) == IntBody(s) # <<>> /\ \A i \in 1..Len(IntBody(s)) : IsDigit(IntBody(s)[i])

IntValue(s) ==
    LET t == Strip(s, Whitespace)
    IN  IF t # <<>> /\ Head(t) = "-" THEN 0 - DigitsValue(IntBody(s))
        ELSE DigitsValue(IntBody(s))

(***************************************************************************)
(* The priority tables.                                                    *)
(***************************************************************************)
AUDIO_QUALITY_PRIORITY == <<30251, 30250, 30280, 30232, 30216>>

VIDEO_QUALITY_PRIORITY == <<127, 126, 125, 120, 116, 112, 80, 74, 64, 32, 16>>

CODEC_PRIORITY == << <<"h","e","v">>, <<"a","v","0","1">>, <<"a","v","c">> >>

\* x in table
InTable(table, x) == \E i \in 1..Len(table) : table[i] = x

\* table.index(x), 0-based, for an x the table holds
IndexOf(table, x) == (CHOOSE i \in 1..Len(table) : table[i] = x) - 1

(***************************************************************************)
(* select_best_video_stream                                                *)
(***************************************************************************)
\* the codec part of sort_key: the first entry of CODEC_PRIORITY that is a
\* substring of the lower-cased codec string, else the sentinel
codec_rank(stream) ==
    LET codecs == Lower(stream.codecs)
        hits == {i \in 1..Len(CODEC_PRIORITY) : Contains(codecs, CODEC_PRIORITY[i])}
    IN  IF hits = {} THEN Sentinel
        ELSE (CHOOSE i \in hits : \A j \in hits : i <= j) - 1

\* the quality part of sort_key
quality_rank(stream) ==
    LET quality == Get(stream.id, 0)
    IN  IF InTable(VIDEO_QUALITY_PRIORITY, quality)
        THEN IndexOf(VIDEO_QUALITY_PRIORITY, quality)
        ELSE Sentinel

\* sort_key with the two parts of the key in the other order
sort_keyCodecFirst(stream) == <<codec_rank(stream), quality_rank(stream)>>

\* sort_key without the codec part
sort_keyQualityOnly(stream) == <<quality_rank(stream), 0>>

\* sort_key(stream) = (quality_rank, codec_rank)
sort_key(stream) == <<quality_rank(stream), codec_rank(stream)>>

\* Python's < on pairs of integers
KeyLess(k1, k2) == k1[1] < k2[1] \/ (k1[1] = k2[1] /\ k1[2] < k2[2])

\* insertion of index x before the first index whose key is not smaller
RECURSIVE InsertByKeyBeforeEqual(_, _, _)
InsertByKeyBeforeEqual(keys, x, sorted) ==
    IF sorted = <<>> THEN <<x>>
    ELSE IF ~KeyLess(keys[Head(sorted)], keys[x])
         THEN <<x>> \o sorted
         ELSE <<Head(sorted)>> \o InsertByKeyBeforeEqual(keys, x, Tail(sorted))

\* insertion of index x behind every index whose key is not greater (stable)
RECURSIVE InsertByKey(_, _, _)
InsertByKey(keys, x, sorted) ==
    IF sorted = <<>> THEN <<x>>
    ELSE IF KeyLess(keys[x], keys[Head(sorted)])
         THEN <<x>> \o sorted
         ELSE <<Head(sorted)>> \o InsertByKey(keys, x, Tail(sorted))

\* the indices 1..n in the order of a stable sort by keys
RECURSIVE SortedIndices(_, _)
SortedIndices(keys, n) ==
    IF n = 0 THEN <<>>
    ELSE InsertByKey(keys, n, SortedIndices(keys, n - 1))

\* sorted(items, key=...): Python's sort is stable; keys[i] is the key of items[i]
Sorted(items, keys) ==
    LET order == SortedIndices(keys, Len(items))
    IN  [i \in 1..Len(items) |-> items[order[i]]]

select_best_video_stream(dash_data) ==
    LET video_streams == dash_data.video
        sorted_streams == Sorted(video_streams,
                                 [i \in 1..Len(video_streams) |-> sort_key(video_streams[i])])
    IN  IF video_streams = <<>> THEN None
        ELSE sorted_streams[1]

(***************************************************************************)
(* DownloadThread._select_video_stream(quality)                            *)
(***************************************************************************)
\* _select_video_stream that ignores the quality asked for
select_video_streamIgnoringQuality(quality, dash_data) ==
    select_best_video_stream(dash_data)

select_video_stream(quality, dash_data) ==
    LET video_streams == dash_data.video
        IsMatch(s) == s.id = quality
        matching_streams == SelectSeq(video_streams, IsMatch)
        sorted_matching == Sorted(matching_streams,
                                  [i \in 1..Len(matching_streams) |->
                                      <<codec_rank(matching_streams[i]), 0>>])
    IN  IF quality = 0 THEN select_best_video_stream(dash_data)
        ELSE IF matching_streams # <<>> THEN sorted_matching[1]
        ELSE select_best_video_stream(dash_data)

(***************************************************************************)
(* select_best_audio_stream                                                *)
(***************************************************************************)
\* AudioLoopStep that adopts a stream with an unknown id whatever was chosen before
AudioLoopStepUnknownReplaces(st, stream) ==
    LET audio_id == Get(stream.id, 0)
    IN  IF InTable(AUDIO_QUALITY_PRIORITY, audio_id)
        THEN IF IndexOf(AUDIO_QUALITY_PRIORITY, audio_id) < st[2]
             THEN <<stream, IndexOf(AUDIO_QUALITY_PRIORITY, audio_id)>>
             ELSE st
        ELSE <<stream, st[2]>>

\* one iteration of the loop over dash_data["audio"]; st = <<best_audio, best_priority>>
AudioLoopStep(st, stream) ==
    LET audio_id == Get(stream.id, 0)
    IN  IF InTable(AUDIO_QUALITY_PRIORITY, audio_id)
        THEN IF IndexOf(AUDIO_QUALITY_PRIORITY, audio_id) < st[2]
             THEN <<stream, IndexOf(AUDIO_QUALITY_PRIORITY, audio_id)>>
             ELSE st
        ELSE IF st[1] = None THEN <<stream, st[2]>> ELSE st

RECURSIVE AudioLoop(_, _)
AudioLoop(st, streams) ==
    IF streams = <<>> THEN st
    ELSE AudioLoop(AudioLoopStep(st, Head(streams)), Tail(streams))

\* SpecialStep that also adopts a candidate of the same rank
SpecialStepOrEqual(st, stream, default_id) ==
    LET id == Get(stream.id, default_id)
    IN  IF InTable(AUDIO_QUALITY_PRIORITY, id) /\ IndexOf(AUDIO_QUALITY_PRIORITY, id) <= st[2]
        THEN <<stream, IndexOf(AUDIO_QUALITY_PRIORITY, id)>>
        ELSE st

\* the flac and the dolby candidate: adopted only with a known id of a strictly better rank
SpecialStep(st, stream, default_id) ==
    LET id == Get(stream.id, default_id)
    IN  IF InTable(AUDIO_QUALITY_PRIORITY, id) /\ IndexOf(AUDIO_QUALITY_PRIORITY, id) < st[2]
        THEN <<stream, IndexOf(AUDIO_QUALITY_PRIORITY, id)>>
        ELSE st

\* select_best_audio_stream that takes the last spatial track as the candidate
select_best_audio_streamLastDolby(dash_data) ==
    LET st0 == <<None, Sentinel>>
        st1 == AudioLoop(st0, dash_data.audio)
        st2 == IF dash_data.flac # None THEN SpecialStep(st1, dash_data.flac, 30251) ELSE st1
        st3 == IF dash_data.dolby # <<>>
               THEN SpecialStep(st2, dash_data.dolby[Len(dash_data.dolby)], 30250)
               ELSE st2
    IN  st3[1]

select_best_audio_stream(dash_data) ==
    LET st0 == <<None, Sentinel>>
        st1 == AudioLoop(st0, dash_data.audio)
        st2 == IF dash_data.flac # None THEN SpecialStep(st1, dash_data.flac, 30251) ELSE st1
        st3 == IF dash_data.dolby # <<>> THEN SpecialStep(st2, dash_data.dolby[1], 30250) ELSE st2
    IN  st3[1]

(***************************************************************************)
(* get_stream_url: "" is a URL the stream does not hold                    *)
(***************************************************************************)
get_stream_url(stream) ==
    IF stream.base_url # "" THEN stream.base_url
    ELSE IF stream.backup_url # <<>> THEN stream.backup_url[1]
    ELSE ""

(***************************************************************************)
(* parse_video_url: a result is (bvid, aid, page), <<>> and Missing are    *)
(* None                                                                    *)
(***************************************************************************)
\* the characters of a URL scheme
SchemeChars == {"+", "-", "."}

\* urlparse(url): the path and the query (scheme and netloc are split off first,
\* then the fragment, then the query)
urlparse(u) ==
    LET colon == FirstOf(u, {":"})
        scheme == /\ colon > 1
                  /\ IsLetter(u[1])
                  /\ \A i \in 1..(colon - 1) : IsAlnum(u[i]) \/ u[i] \in SchemeChars
        rest1 == IF scheme THEN From(u, colon + 1) ELSE u
        netloc == StartsWith(rest1, <<"/", "/">>)
        after == From(rest1, 3)
        delim == FirstOf(after, {"/", "?", "#"})
        rest2 == IF ~netloc THEN rest1
                 ELSE IF delim = 0 THEN <<>> ELSE From(after, delim)
        hash == FirstOf(rest2, {"#"})
        rest3 == IF hash = 0 THEN rest2 ELSE SubSeq(rest2, 1, hash - 1)
        q == FirstOf(rest3, {"?"})
    IN  [path |-> IF q = 0 THEN rest3 ELSE SubSeq(rest3, 1, q - 1),
         query |-> IF q = 0 THEN <<>> ELSE From(rest3, q + 1)]

\* str.split("&")
RECURSIVE Fields(_)
Fields(query) ==
    LET amp == FirstOf(query, {"&"})
    IN  IF amp = 0 THEN <<query>>
        ELSE <<SubSeq(query, 1, amp - 1)>> \o Fields(From(query, amp + 1))

\* parse_qs(query)['p'][0], <<>> when 'p' is not in parse_qs(query): a field
\* counts when it reads p=value with a value that is not blank
QueryP(query) ==
    LET fields == Fields(query)
        IsP(f) == Len(f) > 2 /\ f[1] = "p" /\ f[2] = "="
        hits == {i \in 1..Len(fields) : IsP(fields[i])}
    IN  IF hits = {} THEN <<>>
        ELSE From(fields[CHOOSE i \in hits : \A j \in hits : i <= j], 3)

\* url.upper().startswith("BV") and len(url) <= 12
IsRawBv(u) == StartsWith(Upper(u), <<"B", "V">>) /\ Len(u) <= 12

\* re.match(r'^av(\d+)$', url, re.IGNORECASE)
IsRawAv(u) ==
    /\ Len(u) > 2
    /\ Lower(SubSeq(u, 1, 2)) = <<"a", "v">>
    /\ \A i \in 3..Len(u) : IsDigit(u[i])

\* re.search(r'(BV[a-zA-Z0-9]{10})', path, re.IGNORECASE).group(1), <<>> for no match
bv_search(path) ==
    LET At(i) == /\ Lower(SubSeq(path, i, i + 1)) = <<"b", "v">>
                 /\ \A j \in (i + 2)..(i + 11) : IsAlnum(path[j])
        hits == {i \in 1..(Len(path) - 11) : At(i)}
    IN  IF hits = {} THEN <<>>
        ELSE LET i == CHOOSE i \in hits : \A j \in hits : i <= j
             IN  SubSeq(path, i, i + 11)

\* re.search(r'av(\d+)', path, re.IGNORECASE).group(1), <<>> for no match
av_search(path) ==
    LET At(i) == Lower(SubSeq(path, i, i + 1)) = <<"a", "v">> /\ IsDigit(path[i + 2])
        hits == {i \in 1..(Len(path) - 2) : At(i)}
    IN  IF hits = {} THEN <<>>
        ELSE LET i == CHOOSE i \in hits : \A j \in hits : i <= j
                 rest == From(path, i + 2)
                 stop == CHOOSE k \in 1..Len(rest) :
                            /\ \A j \in 1..k : IsDigit(rest[j])
                            /\ (k = Len(rest) \/ ~IsDigit(rest[k + 1]))
             IN  SubSeq(rest, 1, stop)

\* return None, None, 1
NoRef == [bvid |-> <<>>, aid |-> Missing, page |-> 1]

\* int(query_params['p'][0]) raises ValueError inside the try block, whose
\* except clause passes: the function then returns None, None, 1
parse_video_url(url0) ==
    LET u == Strip(url0, Whitespace)
        parts == urlparse(u)
        bv == bv_search(parts.path)
        av == av_search(parts.path)
        p == QueryP(parts.query)
    IN  IF IsRawBv(u) THEN [bvid |-> u, aid |-> Missing, page |-> 1]
        ELSE IF IsRawAv(u)
        THEN [bvid |-> <<>>, aid |-> DigitsValue(From(u, 3)), page |-> 1]
        ELSE IF bv # <<>>
        THEN IF p = <<>> THEN [bvid |-> bv, aid |-> Missing, page |-> 1]
             ELSE IF IntOk(p) THEN [bvid |-> bv, aid |-> Missing, page |-> IntValue(p)]
             ELSE NoRef
        ELSE IF av # <<>>
        THEN IF p = <<>> THEN [bvid |-> <<>>, aid |-> DigitsValue(av), page |-> 1]
             ELSE IF IntOk(p) THEN [bvid |-> <<>>, aid |-> DigitsValue(av), page |-> IntValue(p)]
             ELSE NoRef
        ELSE NoRef

(***************************************************************************)
(* sanitize_filename and the name of the final file                        *)
(***************************************************************************)
\* the characters of r'[<>:"/\\|?*\x00-\x1f]': the nine printable ones, and the
\* control characters a string of the model can hold
IllegalChars == {"<", ">", ":", "\"", "/", "\\", "|", "?", "*"}

ControlChars == {"\t", "\n", "\f", "\r"}

\* "video"
DefaultName == <<"v", "i", "d", "e", "o">>

\* max_length: int = 200
DefaultMaxLength == 200

sanitize_filename(filename, max_length) ==
    LET replaced == [i \in 1..Len(filename) |->
                        IF filename[i] \in IllegalChars \cup ControlChars
                        THEN "_" ELSE filename[i]]
        stripped == Strip(replaced, {" ", "."})
        cut == IF Len(stripped) > max_length
               THEN SubSeq(stripped, 1, max_length)
               ELSE stripped
    IN  IF cut = <<>> THEN DefaultName ELSE cut

\* str(n) for n >= 0
RECURSIVE Str(_)
Str(n) ==
    IF n < 10 THEN <<Digits[n + 1]>>
    ELSE Str(n \div 10) \o <<Digits[(n % 10) + 1]>>

\* "未知": the two characters are named by their code points
DefaultTitle == <<"U+672A", "U+77E5">>

\* info.get("title", "未知"); a text key of a dict is <<>> when the dict does not
\* hold it and <<text>> when it does
title_of(title) == IF title = <<>> THEN DefaultTitle ELSE title[1]

\* page_info.get("part", f"P{self.page}")
part_name_of(part, page_no) ==
    IF part = <<>> THEN <<"P">> \o Str(page_no) ELSE part[1]

file_nameAlwaysSuffixed(title, n_pages, page_no, part_name) ==
    sanitize_filename(title \o <<"_", "P">> \o Str(page_no) \o <<"_">> \o part_name,
                      DefaultMaxLength)

\* filename, as the single-stream branch and the DASH branch both compute it
file_name(title, n_pages, page_no, part_name) ==
    sanitize_filename(IF n_pages > 1
                      THEN title \o <<"_", "P">> \o Str(page_no) \o <<"_">> \o part_name
                      ELSE title,
                      DefaultMaxLength)

(***************************************************************************)
(* The environment's answers.                                              *)
(***************************************************************************)
\* parse_video_url(url) for the urls tried: (bvid, aid, page); "" and Missing are None
ParseResults ==
    { [bvid |-> "", aid |-> Missing, page |-> 1],
      [bvid |-> "", aid |-> 0, page |-> 1],
      [bvid |-> "", aid |-> 170001, page |-> 1],
      [bvid |-> "BV1xx411c7mD", aid |-> Missing, page |-> 1],
      [bvid |-> "BV1xx411c7mD", aid |-> Missing, page |-> 2] }

\* the quality argument of DownloadThread: 0 is automatic
Qualities == {0, 80}

\* the quality argument of download_video, from the command line's -q:
\* "max" (the default) is 127, "1080p" is 80
CliQualities == {127, 80}

Stream(id, codecs, base_url, backup_url) ==
    [id |-> id, codecs |-> codecs, base_url |-> base_url, backup_url |-> backup_url]

V120hev == Stream(120, <<"h","e","v","1">>, "v120hev", <<>>)
V80avc == Stream(80, <<"A","V","C","1">>, "", <<"v80avc_backup">>)
VNoUrl == Stream(80, <<"a","v","c","1">>, "", <<>>)
A192 == Stream(30280, <<"m","p","4","a">>, "a192", <<>>)
ANoUrl == Stream(30280, <<"m","p","4","a">>, "", <<>>)

Dash(video, audio) == [video |-> video, audio |-> audio, flac |-> None, dolby |-> <<>>]

\* the answers of get_download_url: a single-stream manifest, one with no stream at
\* all, and DASH manifests with and without a usable video and audio stream
Manifests ==
    { [dash |-> None, durl |-> << [url |-> "flv"] >>],
      [dash |-> None, durl |-> <<>>],
      [dash |-> Dash(<<V80avc, V120hev>>, <<A192>>), durl |-> <<>>],
      [dash |-> Dash(<<>>, <<A192>>), durl |-> <<>>],
      [dash |-> Dash(<<V120hev>>, <<>>), durl |-> <<>>],
      [dash |-> Dash(<<VNoUrl>>, <<A192>>), durl |-> <<>>],
      [dash |-> Dash(<<V120hev>>, <<ANoUrl>>), durl |-> <<>>] }

\* the streams a job downloads and the file each is written to:
\* final_output, temp_video (CACHE_DIR/<uuid>.m4v), temp_audio (CACHE_DIR/<uuid>.m4a)
Streams == {"single", "video", "audio"}
Paths == {"final", "temp_video", "temp_audio"}
Dest(s) == CASE s = "single" -> "final"
             [] s = "video" -> "temp_video"
             [] s = "audio" -> "temp_audio"

\* the size of a file that does not exist
Absent == -1

(***************************************************************************)
(* The state of one job.                                                   *)
(***************************************************************************)
VARIABLES
    coord,      \* "thread": DownloadThread.run, "async": download_video_async
    parsed,     \* what parse_video_url returns for the job's url
    page,       \* self.page / page
    quality,    \* self.quality
    cancelled,  \* self._cancelled
    pc,         \* where the coordinator is
    npages,     \* len(pages) of getInfo's answer (Absent before it)
    data,       \* download_url_data (None before get_download_url answered)
    cur,        \* the stream being downloaded, "none" outside a download
    total,      \* the downloader's total
    current,    \* the downloader's current
    remaining,  \* per stream: the bytes the transport has still to deliver (Absent: not opened)
    fs,         \* per path: the size of the file there, Absent when there is none
    result,     \* (success, message) as reported, None while the job runs
    cancelAt,   \* history: pc when cancel() was called, "never" before
    ops,        \* history: how often each external operation was performed,
                \* the page_index last asked for, ffmpeg's last exit code and
                \* the number of progress_updated events emitted
    progress,   \* history: the last progress_updated event, <<>> before the first
    finalBy,    \* history: what created the file at final_output
    ret,        \* history: per stream, how its download returned
    selected,   \* what each stream selector returned, when it is applied on its
                \* own to the dash data of `data` (SelSpec); NotApplied before
    url,        \* the argument of parse_video_url, when it is applied on its own
                \* (ParseSpec: `parsed` is then its result); NotApplied in a job,
                \* whose url is represented by `parsed`
    naming,     \* the title and part name of getInfo's answer and the file name
                \* made of them, when the naming is applied on its own (NameSpec)
    jobs,       \* two jobs that run at the same time and the paths each has
                \* written while downloading (JobsSpec); NotApplied elsewhere
    gui,        \* MainWindow: _video_info, the DownloadThreads it has created
                \* (the last one is _download_thread) and the number of start
                \* requests (GuiSpec); NotApplied elsewhere
    pair        \* the two coordinators called with the same arguments against the
                \* same environment: the answers given so far and where each
                \* coordinator stands (PairSpec); NotApplied elsewhere

vars == <<coord, parsed, page, quality, cancelled, pc, npages, data, cur, total,
          current, remaining, fs, result, cancelAt, ops, progress, finalBy, ret,
          selected, url, naming, jobs, gui, pair>>

inputs == <<coord, parsed, quality>>
texts == <<url, naming, jobs, gui, pair>>
dl == <<total, current, remaining>>

Init ==
    /\ coord \in {"thread", "async"}
    /\ parsed \in ParseResults
    /\ page \in 1..MaxPages
    /\ quality \in (IF coord = "thread" THEN Qualities ELSE CliQualities)
    /\ cancelled = FALSE
    /\ pc = "start"
    /\ npages = Absent
    /\ data = None
    /\ cur = "none"
    /\ total = 0
    /\ current = 0
    /\ remaining = [s \in Streams |-> Absent]
    /\ fs = [p \in Paths |-> Absent]
    /\ result = None
    /\ cancelAt = "never"
    /\ ops = [info |-> 0, manifest |-> 0, page_index |-> Absent,
              open |-> [s \in Streams |-> 0], read |-> 0, late |-> 0,
              ffmpeg |-> 0, returncode |-> Absent, events |-> 0]
    /\ progress = <<>>
    /\ finalBy = "none"
    /\ ret = [s \in Streams |-> "unopened"]
    /\ selected = [best_video |-> NotApplied, video |-> NotApplied,
                   audio |-> NotApplied]
    /\ url = NotApplied
    /\ naming = NotApplied
    /\ jobs = NotApplied
    /\ gui = NotApplied
    /\ pair = NotApplied

\* the job ends: finished.emit(success, message) / return
Finish(success, message) ==
    /\ pc' = "done"
    /\ result' = [ok |-> success, msg |-> message]

Goto(p) ==
    /\ pc' = p
    /\ UNCHANGED result

\* Path.unlink(missing_ok=True)
Unlink(files, paths) == [p \in Paths |-> IF p \in paths THEN Absent ELSE files[p]]

(***************************************************************************)
(* What the coordinators compute from the manifest.                        *)
(***************************************************************************)
video_stream(c, q, d) ==
    IF c = "thread" THEN select_video_stream(q, d.dash)
    ELSE select_best_video_stream(d.dash)

audio_stream(d) == select_best_audio_stream(d.dash)

video_url(c, q, d) == get_stream_url(video_stream(c, q, d))

\* audio_url that is the text of None for a stream with no URL
audio_urlNeverEmpty(d) ==
    IF audio_stream(d) # None
    THEN IF get_stream_url(audio_stream(d)) # "" THEN get_stream_url(audio_stream(d))
         ELSE "None"
    ELSE ""

audio_url(d) == IF audio_stream(d) # None THEN get_stream_url(audio_stream(d)) ELSE ""

\* the manifest d offers nothing to download: not durl, video_stream is None,
\* or not video_url
NoUsableVideo(c, q, d) ==
    IF d.dash = None THEN d.durl = <<>>
    ELSE video_stream(c, q, d) = None \/ video_url(c, q, d) = ""

(***************************************************************************)
(* DownloadThread.cancel, called by the GUI thread at any time             *)
(***************************************************************************)
cancel ==
    /\ coord = "thread"
    /\ pc # "done"
    /\ ~cancelled
    /\ cancelled' = TRUE
    /\ cancelAt' = pc
    /\ UNCHANGED <<inputs, selected, texts, page, pc, npages, data, cur, dl, fs, result, ops,
                   progress, finalBy, ret>>

(***************************************************************************)
(* DownloadThread._download, up to the first stream download               *)
(***************************************************************************)
\* not bvid and not aid
NoIdentifier(ref) == ref.bvid = "" /\ ref.aid \in {Missing, 0}

\* T_Start that takes the page of the url whatever it is
T_StartUrlPageAlways ==
    /\ coord = "thread"
    /\ pc = "start"
    /\ IF cancelled
       THEN Finish(FALSE, "cancelled") /\ UNCHANGED page
       ELSE IF NoIdentifier(parsed)
            THEN Finish(FALSE, "parse_failed") /\ UNCHANGED page
            ELSE /\ page' = parsed.page
                 /\ Goto("get_info")
    /\ UNCHANGED <<inputs, selected, texts, cancelled, npages, data, cur, dl, fs, cancelAt, ops,
                   progress, finalBy, ret>>

\* T_Start without the test of the cancel flag
T_StartIgnoringCancel ==
    /\ coord = "thread"
    /\ pc = "start"
    /\ IF NoIdentifier(parsed)
       THEN Finish(FALSE, "parse_failed") /\ UNCHANGED page
       ELSE /\ page' = IF parsed.page > 1 THEN parsed.page ELSE page
            /\ Goto("get_info")
    /\ UNCHANGED <<inputs, selected, texts, cancelled, npages, data, cur, dl, fs, cancelAt, ops,
                   progress, finalBy, ret>>

T_Start ==
    /\ coord = "thread"
    /\ pc = "start"
    /\ IF cancelled
       THEN Finish(FALSE, "cancelled") /\ UNCHANGED page
       ELSE IF NoIdentifier(parsed)
            THEN Finish(FALSE, "parse_failed") /\ UNCHANGED page
            ELSE /\ page' = IF parsed.page > 1 THEN parsed.page ELSE page
                 /\ Goto("get_info")
    /\ UNCHANGED <<inputs, selected, texts, cancelled, npages, data, cur, dl, fs, cancelAt, ops,
                   progress, finalBy, ret>>

\* T_GetInfo with a metadata fetch that is tried again after it failed
T_GetInfoRetrying ==
    /\ coord = "thread"
    /\ pc = "get_info"
    /\ ops' = [ops EXCEPT !.info = @ + 1]
    /\ \/ Goto("get_info") /\ UNCHANGED npages
       \/ \E n \in 0..MaxPages :
            /\ npages' = n
            /\ IF cancelled THEN Finish(FALSE, "cancelled")
               ELSE IF page > n THEN Finish(FALSE, "page_missing")
               ELSE Goto("get_manifest")
    /\ UNCHANGED <<inputs, selected, texts, page, cancelled, data, cur, dl, fs, cancelAt,
                   progress, finalBy, ret>>

T_GetInfo ==
    /\ coord = "thread"
    /\ pc = "get_info"
    /\ ops' = [ops EXCEPT !.info = @ + 1]
    /\ \/ Finish(FALSE, "info_failed") /\ UNCHANGED npages
       \/ \E n \in 0..MaxPages :
            /\ npages' = n
            /\ IF cancelled THEN Finish(FALSE, "cancelled")
               ELSE IF page > n THEN Finish(FALSE, "page_missing")
               ELSE Goto("get_manifest")
    /\ UNCHANGED <<inputs, selected, texts, page, cancelled, data, cur, dl, fs, cancelAt,
                   progress, finalBy, ret>>

\* T_GetManifest asking for the page number itself instead of its 0-based index
T_GetManifestOneBased ==
    /\ coord = "thread"
    /\ pc = "get_manifest"
    /\ ops' = [ops EXCEPT !.manifest = @ + 1, !.page_index = page]
    /\ \/ Finish(FALSE, "manifest_failed") /\ UNCHANGED <<data, cur>>
       \/ \E d \in Manifests :
            /\ data' = d
            /\ IF cancelled
               THEN Finish(FALSE, "cancelled") /\ UNCHANGED cur
               ELSE IF d.dash = None
               THEN IF d.durl = <<>>
                    THEN Finish(FALSE, "no_stream") /\ UNCHANGED cur
                    ELSE Goto("open") /\ cur' = "single"
               ELSE IF video_stream(coord, quality, d) = None
               THEN Finish(FALSE, "no_stream") /\ UNCHANGED cur
               ELSE IF video_url(coord, quality, d) = ""
               THEN Finish(FALSE, "no_video_url") /\ UNCHANGED cur
               ELSE Goto("open") /\ cur' = "video"
    /\ UNCHANGED <<inputs, selected, texts, page, cancelled, npages, dl, fs, cancelAt,
                   progress, finalBy, ret>>

\* T_GetManifest without the test of the selected video stream's URL
T_GetManifestUnchecked ==
    /\ coord = "thread"
    /\ pc = "get_manifest"
    /\ ops' = [ops EXCEPT !.manifest = @ + 1, !.page_index = page - 1]
    /\ \/ Finish(FALSE, "manifest_failed") /\ UNCHANGED <<data, cur>>
       \/ \E d \in Manifests :
            /\ data' = d
            /\ IF cancelled
               THEN Finish(FALSE, "cancelled") /\ UNCHANGED cur
               ELSE IF d.dash = None
               THEN IF d.durl = <<>>
                    THEN Finish(FALSE, "no_stream") /\ UNCHANGED cur
                    ELSE Goto("open") /\ cur' = "single"
               ELSE IF video_stream(coord, quality, d) = None
               THEN Finish(FALSE, "no_stream") /\ UNCHANGED cur
               ELSE Goto("open") /\ cur' = "video"
    /\ UNCHANGED <<inputs, selected, texts, page, cancelled, npages, dl, fs, cancelAt,
                   progress, finalBy, ret>>

T_GetManifest ==
    /\ coord = "thread"
    /\ pc = "get_manifest"
    /\ ops' = [ops EXCEPT !.manifest = @ + 1, !.page_index = page - 1]
    /\ \/ Finish(FALSE, "manifest_failed") /\ UNCHANGED <<data, cur>>
       \/ \E d \in Manifests :
            /\ data' = d
            /\ IF cancelled
               THEN Finish(FALSE, "cancelled") /\ UNCHANGED cur
               ELSE IF d.dash = None
               THEN IF d.durl = <<>>
                    THEN Finish(FALSE, "no_stream") /\ UNCHANGED cur
                    ELSE Goto("open") /\ cur' = "single"
               ELSE IF video_stream(coord, quality, d) = None
               THEN Finish(FALSE, "no_stream") /\ UNCHANGED cur
               ELSE IF video_url(coord, quality, d) = ""
               THEN Finish(FALSE, "no_video_url") /\ UNCHANGED cur
               ELSE Goto("open") /\ cur' = "video"
    /\ UNCHANGED <<inputs, selected, texts, page, cancelled, npages, dl, fs, cancelAt,
                   progress, finalBy, ret>>

(***************************************************************************)
(* DownloadThread._download, after a stream download returned: `how` is    *)
(* how the download ended, `files` the file system it leaves               *)
(***************************************************************************)
Succeeded(how) == how \in {"ok_total", "ok_eof"}

T_Returned(how, files) ==
    /\ ret' = [ret EXCEPT ![cur] = how]
    /\ CASE cur = "single" ->
            /\ fs' = files
            /\ cur' = cur
            /\ IF ~Succeeded(how) THEN Finish(FALSE, "single_failed")
               ELSE Finish(TRUE, "completed")
         [] cur = "video" ->
            IF ~Succeeded(how)
            THEN /\ fs' = Unlink(files, {"temp_video"})
                 /\ cur' = cur
                 /\ Finish(FALSE, "video_failed")
            ELSE IF cancelled
            THEN /\ fs' = Unlink(files, {"temp_video"})
                 /\ cur' = cur
                 /\ Finish(FALSE, "cancelled")
            ELSE IF audio_url(data) # ""
            THEN /\ fs' = files
                 /\ cur' = "audio"
                 /\ Goto("open")
            ELSE /\ fs' = files
                 /\ cur' = cur
                 /\ Goto("rename")
         [] cur = "audio" ->
            IF ~Succeeded(how)
            THEN /\ fs' = Unlink(files, {"temp_video", "temp_audio"})
                 /\ cur' = cur
                 /\ Finish(FALSE, "audio_failed")
            ELSE IF cancelled
            THEN /\ fs' = Unlink(files, {"temp_video", "temp_audio"})
                 /\ cur' = cur
                 /\ Finish(FALSE, "cancelled")
            ELSE /\ fs' = files
                 /\ cur' = cur
                 /\ Goto("merge_check")

(***************************************************************************)
(* DownloadThread._download_stream_with_progress                           *)
(***************************************************************************)
\* download_create, download_content_length, open(output_path, 'wb')
T_Open ==
    /\ coord = "thread"
    /\ pc = "open"
    /\ ops' = [ops EXCEPT !.open[cur] = @ + 1]
    /\ \/ /\ T_Returned("error", fs)
          /\ UNCHANGED <<dl, finalBy>>
       \/ \E t \in 0..MaxTotal, n \in 0..MaxStream :
            /\ total' = t
            /\ current' = 0
            /\ remaining' = [remaining EXCEPT ![cur] = n]
            /\ fs' = [fs EXCEPT ![Dest(cur)] = 0]
            /\ finalBy' = IF cur = "single" THEN "write" ELSE finalBy
            /\ ret' = [ret EXCEPT ![cur] = "running"]
            /\ Goto("loop")
            /\ UNCHANGED cur
    /\ UNCHANGED <<inputs, selected, texts, page, cancelled, npages, data, cancelAt, progress>>

\* T_LoopCheck with a chunk loop that does not consult the cancel flag
T_LoopCheckIgnoringCancel ==
    /\ coord = "thread"
    /\ pc = "loop"
    /\ IF current < total
       THEN Goto("chunk_call") /\ UNCHANGED <<ret, fs, cur>>
       ELSE T_Returned("ok_total", fs)
    /\ UNCHANGED <<inputs, selected, texts, page, cancelled, npages, data, dl, cancelAt, ops,
                   progress, finalBy>>

\* while current < total: if self._cancelled: return False
T_LoopCheck ==
    /\ coord = "thread"
    /\ pc = "loop"
    /\ IF current < total
       THEN IF cancelled
            THEN T_Returned("cancel", fs)
            ELSE Goto("chunk_call") /\ UNCHANGED <<ret, fs, cur>>
       ELSE T_Returned("ok_total", fs)
    /\ UNCHANGED <<inputs, selected, texts, page, cancelled, npages, data, dl, cancelAt, ops,
                   progress, finalBy>>

\* client.download_chunk(dwn_id) is called
T_ChunkCall ==
    /\ coord = "thread"
    /\ pc = "chunk_call"
    /\ ops' = [ops EXCEPT !.read = @ + 1,
                          !.late = IF cancelled THEN @ + 1 ELSE @]
    /\ Goto("chunk_wait")
    /\ UNCHANGED <<inputs, selected, texts, page, cancelled, npages, data, cur, dl, fs, cancelAt,
                   progress, finalBy, ret>>

\* T_ChunkReturn with a progress event that carries the size of the chunk
T_ChunkReturnEmittingChunkSize ==
    /\ coord = "thread"
    /\ pc = "chunk_wait"
    /\ \/ /\ T_Returned("error", fs)
          /\ UNCHANGED <<dl, progress, ops>>
       \/ /\ remaining[cur] = 0
          /\ T_Returned("ok_eof", fs)
          /\ UNCHANGED <<dl, progress, ops>>
       \/ \E k \in 1..Min(MaxChunk, remaining[cur]) :
            /\ fs' = [fs EXCEPT ![Dest(cur)] = @ + k]
            /\ current' = current + k
            /\ remaining' = [remaining EXCEPT ![cur] = @ - k]
            /\ progress' = <<k, total>>
            /\ ops' = [ops EXCEPT !.events = @ + 1]
            /\ Goto("loop")
            /\ UNCHANGED <<ret, cur, total>>
    /\ UNCHANGED <<inputs, selected, texts, page, cancelled, npages, data, cancelAt, finalBy>>

\* download_chunk raises, returns no bytes (end of stream), or returns a chunk,
\* which is written and reported by progress_updated.emit(current, total)
T_ChunkReturn ==
    /\ coord = "thread"
    /\ pc = "chunk_wait"
    /\ \/ /\ T_Returned("error", fs)
          /\ UNCHANGED <<dl, progress, ops>>
       \/ /\ remaining[cur] = 0
          /\ T_Returned("ok_eof", fs)
          /\ UNCHANGED <<dl, progress, ops>>
       \/ \E k \in 1..Min(MaxChunk, remaining[cur]) :
            /\ fs' = [fs EXCEPT ![Dest(cur)] = @ + k]
            /\ current' = current + k
            /\ remaining' = [remaining EXCEPT ![cur] = @ - k]
            /\ progress' = <<current + k, total>>
            /\ ops' = [ops EXCEPT !.events = @ + 1]
            /\ Goto("loop")
            /\ UNCHANGED <<ret, cur, total>>
    /\ UNCHANGED <<inputs, selected, texts, page, cancelled, npages, data, cancelAt, finalBy>>

(***************************************************************************)
(* merge_video_audio, called by both coordinators                          *)
(***************************************************************************)
\* merge_check with a failed check_ffmpeg that removes the two inputs
merge_checkCleaningUp ==
    /\ pc = "merge_check"
    /\ \E available \in BOOLEAN :
         IF available THEN Goto("merge_run") /\ UNCHANGED fs
         ELSE /\ fs' = Unlink(fs, {"temp_video", "temp_audio"})
              /\ Finish(FALSE, "merge_failed")
    /\ UNCHANGED <<inputs, selected, texts, page, cancelled, npages, data, cur, dl, cancelAt,
                   ops, progress, finalBy, ret>>

\* check_ffmpeg: "ffmpeg -version" runs with exit code 0, or does not
merge_check ==
    /\ pc = "merge_check"
    /\ \E available \in BOOLEAN :
         IF available THEN Goto("merge_run")
         ELSE Finish(FALSE, "merge_failed")
    /\ UNCHANGED <<inputs, selected, texts, page, cancelled, npages, data, cur, dl, fs, cancelAt,
                   ops, progress, finalBy, ret>>

\* merge_run with a successful mux that leaves its inputs where they are
merge_runKeepingInputs ==
    /\ pc = "merge_run"
    /\ \/ /\ ops' = [ops EXCEPT !.ffmpeg = @ + 1, !.returncode = 0]
          /\ fs' = [fs EXCEPT !["final"] = fs["temp_video"] + fs["temp_audio"]]
          /\ finalBy' = "merge"
          /\ Finish(TRUE, "completed")
       \/ /\ ops' = [ops EXCEPT !.ffmpeg = @ + 1, !.returncode = 1]
          /\ UNCHANGED <<fs, finalBy>>
          /\ Finish(FALSE, "merge_failed")
       \/ /\ ops' = [ops EXCEPT !.ffmpeg = @ + 1, !.returncode = 1]
          /\ fs' = [fs EXCEPT !["final"] = 0]
          /\ finalBy' = "merge_aborted"
          /\ Finish(FALSE, "merge_failed")
    /\ UNCHANGED <<inputs, selected, texts, page, cancelled, npages, data, cur, dl, cancelAt,
                   progress, ret>>

\* merge_run with a failed mux that removes the two inputs
merge_runCleaningUp ==
    /\ pc = "merge_run"
    /\ \/ /\ ops' = [ops EXCEPT !.ffmpeg = @ + 1, !.returncode = 0]
          /\ fs' = [fs EXCEPT !["final"] = fs["temp_video"] + fs["temp_audio"],
                              !["temp_video"] = Absent,
                              !["temp_audio"] = Absent]
          /\ finalBy' = "merge"
          /\ Finish(TRUE, "completed")
       \/ /\ ops' = [ops EXCEPT !.ffmpeg = @ + 1, !.returncode = 1]
          /\ fs' = Unlink(fs, {"temp_video", "temp_audio"})
          /\ UNCHANGED finalBy
          /\ Finish(FALSE, "merge_failed")
       \/ /\ ops' = [ops EXCEPT !.ffmpeg = @ + 1, !.returncode = 1]
          /\ fs' = [Unlink(fs, {"temp_video", "temp_audio"}) EXCEPT !["final"] = 0]
          /\ finalBy' = "merge_aborted"
          /\ Finish(FALSE, "merge_failed")
    /\ UNCHANGED <<inputs, selected, texts, page, cancelled, npages, data, cur, dl, cancelAt,
                   progress, ret>>

\* the mux command: exit code 0 writes the output and the inputs are unlinked;
\* a failing ffmpeg (returncode 1 stands for every non-zero exit code and for a
\* process that could not be run) may leave a partial output behind, and the
\* inputs stay
merge_run ==
    /\ pc = "merge_run"
    /\ \/ /\ ops' = [ops EXCEPT !.ffmpeg = @ + 1, !.returncode = 0]
          /\ fs' = [fs EXCEPT !["final"] = fs["temp_video"] + fs["temp_audio"],
                              !["temp_video"] = Absent,
                              !["temp_audio"] = Absent]
          /\ finalBy' = "merge"
          /\ Finish(TRUE, "completed")
       \/ /\ ops' = [ops EXCEPT !.ffmpeg = @ + 1, !.returncode = 1]
          /\ UNCHANGED <<fs, finalBy>>
          /\ Finish(FALSE, "merge_failed")
       \/ /\ ops' = [ops EXCEPT !.ffmpeg = @ + 1, !.returncode = 1]
          /\ fs' = [fs EXCEPT !["final"] = 0]
          /\ finalBy' = "merge_aborted"
          /\ Finish(FALSE, "merge_failed")
    /\ UNCHANGED <<inputs, selected, texts, page, cancelled, npages, data, cur, dl, cancelAt,
                   progress, ret>>

(***************************************************************************)
(* temp_video.rename(final_output), in both coordinators: an OSError       *)
(* leaves _download (run reports it) or download_video_async               *)
(***************************************************************************)
\* rename with an OSError that ends the thread before finished is emitted
renameRaisingUnreported ==
    /\ pc = "rename"
    /\ \/ /\ fs' = [fs EXCEPT !["final"] = fs["temp_video"],
                              !["temp_video"] = Absent]
          /\ finalBy' = "rename"
          /\ Finish(TRUE, "completed")
       \/ /\ UNCHANGED <<fs, finalBy>>
          /\ Goto("done")
    /\ UNCHANGED <<inputs, selected, texts, page, cancelled, npages, data, cur, dl, cancelAt,
                   ops, progress, ret>>

rename ==
    /\ pc = "rename"
    /\ \/ /\ fs' = [fs EXCEPT !["final"] = fs["temp_video"],
                              !["temp_video"] = Absent]
          /\ finalBy' = "rename"
          /\ Finish(TRUE, "completed")
       \/ /\ UNCHANGED <<fs, finalBy>>
          /\ Finish(FALSE, "exception")
    /\ UNCHANGED <<inputs, selected, texts, page, cancelled, npages, data, cur, dl, cancelAt,
                   ops, progress, ret>>

(***************************************************************************)
(* download_video_async, up to the first stream download                   *)
(***************************************************************************)
A_Start ==
    /\ coord = "async"
    /\ pc = "start"
    /\ IF NoIdentifier(parsed)
       THEN Finish(FALSE, "parse_failed") /\ UNCHANGED page
       ELSE /\ page' = IF parsed.page > 1 THEN parsed.page ELSE page
            /\ Goto("get_info")
    /\ UNCHANGED <<inputs, selected, texts, cancelled, npages, data, cur, dl, fs, cancelAt, ops,
                   progress, finalBy, ret>>

A_GetInfo ==
    /\ coord = "async"
    /\ pc = "get_info"
    /\ ops' = [ops EXCEPT !.info = @ + 1]
    /\ \/ Finish(FALSE, "info_failed") /\ UNCHANGED npages
       \/ \E n \in 0..MaxPages :
            /\ npages' = n
            /\ IF page > n THEN Finish(FALSE, "page_missing")
               ELSE Goto("get_manifest")
    /\ UNCHANGED <<inputs, selected, texts, page, cancelled, data, cur, dl, fs, cancelAt,
                   progress, finalBy, ret>>

A_GetManifest ==
    /\ coord = "async"
    /\ pc = "get_manifest"
    /\ ops' = [ops EXCEPT !.manifest = @ + 1, !.page_index = page - 1]
    /\ \/ Finish(FALSE, "manifest_failed") /\ UNCHANGED <<data, cur>>
       \/ \E d \in Manifests :
            /\ data' = d
            /\ IF d.dash = None
               THEN IF d.durl = <<>>
                    THEN Finish(FALSE, "no_stream") /\ UNCHANGED cur
                    ELSE Goto("open") /\ cur' = "single"
               ELSE IF video_stream(coord, quality, d) = None
               THEN Finish(FALSE, "no_stream") /\ UNCHANGED cur
               ELSE IF video_url(coord, quality, d) = ""
               THEN Finish(FALSE, "no_video_url") /\ UNCHANGED cur
               ELSE Goto("open") /\ cur' = "video"
    /\ UNCHANGED <<inputs, selected, texts, page, cancelled, npages, dl, fs, cancelAt,
                   progress, finalBy, ret>>

(***************************************************************************)
(* download_video_async, after download_stream returned                    *)
(***************************************************************************)
A_Returned(how, files) ==
    /\ ret' = [ret EXCEPT ![cur] = how]
    /\ CASE cur = "single" ->
            /\ fs' = files
            /\ cur' = cur
            /\ IF ~Succeeded(how) THEN Finish(FALSE, "single_failed")
               ELSE Finish(TRUE, "completed")
         [] cur = "video" ->
            IF ~Succeeded(how)
            THEN /\ fs' = files
                 /\ cur' = cur
                 /\ Finish(FALSE, "video_failed")
            ELSE IF audio_url(data) # ""
            THEN /\ fs' = files
                 /\ cur' = "audio"
                 /\ Goto("open")
            ELSE /\ fs' = files
                 /\ cur' = cur
                 /\ Goto("rename")
         [] cur = "audio" ->
            IF ~Succeeded(how)
            THEN /\ fs' = Unlink(files, {"temp_video"})
                 /\ cur' = cur
                 /\ Finish(FALSE, "audio_failed")
            ELSE /\ fs' = files
                 /\ cur' = cur
                 /\ Goto("merge_check")

(***************************************************************************)
(* download_stream                                                         *)
(***************************************************************************)
A_Open ==
    /\ coord = "async"
    /\ pc = "open"
    /\ ops' = [ops EXCEPT !.open[cur] = @ + 1]
    /\ \/ /\ A_Returned("error", fs)
          /\ UNCHANGED <<dl, finalBy>>
       \/ \E t \in 0..MaxTotal, n \in 0..MaxStream :
            /\ total' = t
            /\ current' = 0
            /\ remaining' = [remaining EXCEPT ![cur] = n]
            /\ fs' = [fs EXCEPT ![Dest(cur)] = 0]
            /\ finalBy' = IF cur = "single" THEN "write" ELSE finalBy
            /\ ret' = [ret EXCEPT ![cur] = "running"]
            /\ Goto("loop")
            /\ UNCHANGED cur
    /\ UNCHANGED <<inputs, selected, texts, page, cancelled, npages, data, cancelAt, progress>>

\* while current < total
A_LoopCheck ==
    /\ coord = "async"
    /\ pc = "loop"
    /\ IF current < total
       THEN Goto("chunk_wait") /\ UNCHANGED <<ret, fs, cur, ops>>
       ELSE A_Returned("ok_total", fs) /\ UNCHANGED ops
    /\ UNCHANGED <<inputs, selected, texts, page, cancelled, npages, data, dl, cancelAt,
                   progress, finalBy>>

\* chunk = await client.download_chunk(dwn_id) and the rest of the loop body
A_ChunkRead ==
    /\ coord = "async"
    /\ pc = "chunk_wait"
    /\ ops' = [ops EXCEPT !.read = @ + 1]
    /\ \/ /\ A_Returned("error", fs)
          /\ UNCHANGED dl
       \/ /\ remaining[cur] = 0
          /\ A_Returned("ok_eof", fs)
          /\ UNCHANGED dl
       \/ \E k \in 1..Min(MaxChunk, remaining[cur]) :
            /\ fs' = [fs EXCEPT ![Dest(cur)] = @ + k]
            /\ current' = current + k
            /\ remaining' = [remaining EXCEPT ![cur] = @ - k]
            /\ Goto("loop")
            /\ UNCHANGED <<ret, cur, total>>
    /\ UNCHANGED <<inputs, selected, texts, page, cancelled, npages, data, cancelAt, progress, finalBy>>

(***************************************************************************)
(* The specification.                                                      *)
(***************************************************************************)
Next ==
    \/ cancel
    \/ T_Start
    \/ T_GetInfo
    \/ T_GetManifest
    \/ T_Open
    \/ T_LoopCheck
    \/ T_ChunkCall
    \/ T_ChunkReturn
    \/ A_Start
    \/ A_GetInfo
    \/ A_GetManifest
    \/ A_Open
    \/ A_LoopCheck
    \/ A_ChunkRead
    \/ merge_check
    \/ merge_run
    \/ rename

Spec == Init /\ [][Next]_vars

(***************************************************************************)
(* DownloadThread.run drives _download to its end: the event loop resumes  *)
(* the coroutine whenever the call it awaits has returned or raised, and   *)
(* every call of the model returns or raises.  cancel() is the user's and  *)
(* need not happen.                                                        *)
(***************************************************************************)
run ==
    \/ T_Start
    \/ T_GetInfo
    \/ T_GetManifest
    \/ T_Open
    \/ T_LoopCheck
    \/ T_ChunkCall
    \/ T_ChunkReturn
    \/ merge_check
    \/ merge_run
    \/ rename

LiveSpec == Init /\ [][Next]_vars /\ WF_vars(run)

(***************************************************************************)
(* The stream selectors on their own: SelInit draws a dash_data and a      *)
(* quality, and the three selectors are applied to it in turn.             *)
(***************************************************************************)
\* every list over S of at most n elements
SeqsUpTo(S, n) == UNION {[1..k -> S] : k \in 0..n}

Codecs(name) ==
    CASE name = "hev1" -> <<"h","e","v","1">>
      [] name = "av01" -> <<"a","v","0","1">>
      [] name = "AVC1" -> <<"A","V","C","1">>
      [] name = "vp09" -> <<"v","p","0","9">>
      [] name = "mp4a" -> <<"m","p","4","a">>

\* video streams of two known quality ids and with no id, with codecs of every
\* rank (one in upper case) and an unknown one; two of them differ in their URL
\* only
SelVideoStreams ==
    { Stream(120, Codecs("hev1"), "v", <<>>), Stream(120, Codecs("AVC1"), "v", <<>>),
      Stream(80, Codecs("hev1"), "v", <<>>), Stream(80, Codecs("hev1"), "v2", <<>>),
      Stream(80, Codecs("av01"), "v", <<>>),
      Stream(80, Codecs("AVC1"), "v", <<>>), Stream(80, Codecs("vp09"), "v", <<>>),
      Stream(Missing, Codecs("hev1"), "v", <<>>),
      Stream(Missing, Codecs("vp09"), "v", <<>>) }

\* dash_data["audio"] entries: two known ids, and no id; a second stream of the
\* better id and a second one with no id differ from the first in their URL only
SelAudioStreams ==
    { Stream(id, Codecs("mp4a"), "a", <<>>) : id \in {30280, 30216, Missing} }
    \cup { Stream(id, Codecs("mp4a"), "a2", <<>>) : id \in {30280, Missing} }

\* dash_data["flac"]["audio"]: none, the usual id, no id (30251 is assumed), the
\* id of a standard stream, an id the table does not hold
SelFlacs ==
    {None} \cup { Stream(id, Codecs("mp4a"), "flac", <<>>) : id \in {30251, Missing, 30280, 5} }

\* dash_data["dolby"]["audio"]: none, or a list of which the first entry counts
SelDolbys ==
    {<<>>} \cup { <<Stream(id, Codecs("mp4a"), "dolby", <<>>)>> : id \in {30250, Missing, 30216} }
           \cup { <<Stream(5, Codecs("mp4a"), "dolby", <<>>),
                    Stream(30250, Codecs("mp4a"), "dolby2", <<>>)>> }

\* the dash data the selectors are applied to: video lists, and audio offers
SelManifests ==
    { [dash |-> Dash(v, <<>>), durl |-> <<>>] : v \in SeqsUpTo(SelVideoStreams, MaxVideos) }
    \cup
    { [dash |-> [video |-> <<>>, audio |-> a, flac |-> f, dolby |-> d], durl |-> <<>>] :
        a \in SeqsUpTo(SelAudioStreams, MaxAudios), f \in SelFlacs, d \in SelDolbys }

\* self.quality: automatic, an id the video streams have, an id none of them has
SelQualities == {0, 80, 64}

SelInit ==
    /\ coord = "thread"
    /\ parsed = [bvid |-> "BV1xx411c7mD", aid |-> Missing, page |-> 1]
    /\ page = 1
    /\ quality \in SelQualities
    /\ cancelled = FALSE
    /\ pc = "select_best_video"
    /\ npages = 1
    /\ data \in SelManifests
    /\ cur = "none"
    /\ total = 0
    /\ current = 0
    /\ remaining = [s \in Streams |-> Absent]
    /\ fs = [p \in Paths |-> Absent]
    /\ result = None
    /\ cancelAt = "never"
    /\ ops = [info |-> 0, manifest |-> 0, page_index |-> Absent,
              open |-> [s \in Streams |-> 0], read |-> 0, late |-> 0,
              ffmpeg |-> 0, returncode |-> Absent, events |-> 0]
    /\ progress = <<>>
    /\ finalBy = "none"
    /\ ret = [s \in Streams |-> "unopened"]
    /\ selected = [best_video |-> NotApplied, video |-> NotApplied,
                   audio |-> NotApplied]
    /\ url = NotApplied
    /\ naming = NotApplied
    /\ jobs = NotApplied
    /\ gui = NotApplied
    /\ pair = NotApplied

Sel_select_best_video_stream ==
    /\ pc = "select_best_video"
    /\ selected' = [selected EXCEPT !.best_video = select_best_video_stream(data.dash)]
    /\ pc' = "select_video"
    /\ UNCHANGED <<inputs, texts, page, cancelled, npages, data, cur, dl, fs, result,
                   cancelAt, ops, progress, finalBy, ret>>

Sel_select_video_stream ==
    /\ pc = "select_video"
    /\ selected' = [selected EXCEPT !.video = select_video_stream(quality, data.dash)]
    /\ pc' = "select_best_audio"
    /\ UNCHANGED <<inputs, texts, page, cancelled, npages, data, cur, dl, fs, result,
                   cancelAt, ops, progress, finalBy, ret>>

Sel_select_best_audio_stream ==
    /\ pc = "select_best_audio"
    /\ selected' = [selected EXCEPT !.audio = select_best_audio_stream(data.dash)]
    /\ pc' = "selected"
    /\ UNCHANGED <<inputs, texts, page, cancelled, npages, data, cur, dl, fs, result,
                   cancelAt, ops, progress, finalBy, ret>>

SelNext ==
    \/ Sel_select_best_video_stream
    \/ Sel_select_video_stream
    \/ Sel_select_best_audio_stream

SelSpec == SelInit /\ [][SelNext]_vars

(***************************************************************************)
(* parse_video_url on its own: ParseInit draws a url, made of at most      *)
(* MaxPieces pieces, and the function is applied to it.                    *)
(***************************************************************************)
\* "https://b.tv/video/", "BV1xx411c7mD", "av17", "?p=", "2", "0", "x", " "
UrlPieces ==
    { <<"h","t","t","p","s",":","/","/","b",".","t","v","/","v","i","d","e","o","/">>,
      <<"B","V","1","x","x","4","1","1","c","7","m","D">>,
      <<"a","v","1","7">>,
      <<"?","p","=">>,
      <<"2">>,
      <<"0">>,
      <<"x">>,
      <<" ">> }

RECURSIVE Concat(_)
Concat(seqs) == IF seqs = <<>> THEN <<>> ELSE Head(seqs) \o Concat(Tail(seqs))

Urls == { Concat(ps) : ps \in SeqsUpTo(UrlPieces, MaxPieces) }

ParseInit ==
    /\ coord = "thread"
    /\ parsed = NotApplied
    /\ page = 1
    /\ quality = 0
    /\ cancelled = FALSE
    /\ pc = "parse"
    /\ npages = Absent
    /\ data = None
    /\ cur = "none"
    /\ total = 0
    /\ current = 0
    /\ remaining = [s \in Streams |-> Absent]
    /\ fs = [p \in Paths |-> Absent]
    /\ result = None
    /\ cancelAt = "never"
    /\ ops = [info |-> 0, manifest |-> 0, page_index |-> Absent,
              open |-> [s \in Streams |-> 0], read |-> 0, late |-> 0,
              ffmpeg |-> 0, returncode |-> Absent, events |-> 0]
    /\ progress = <<>>
    /\ finalBy = "none"
    /\ ret = [s \in Streams |-> "unopened"]
    /\ selected = [best_video |-> NotApplied, video |-> NotApplied,
                   audio |-> NotApplied]
    /\ url \in Urls
    /\ naming = NotApplied
    /\ jobs = NotApplied
    /\ gui = NotApplied
    /\ pair = NotApplied

Parse_parse_video_url ==
    /\ pc = "parse"
    /\ parsed' = parse_video_url(url)
    /\ pc' = "parsed"
    /\ UNCHANGED <<coord, quality, selected, texts, page, cancelled, npages, data,
                   cur, dl, fs, result, cancelAt, ops, progress, finalBy, ret>>

ParseNext ==
    \/ Parse_parse_video_url

ParseSpec == ParseInit /\ [][ParseNext]_vars

(***************************************************************************)
(* sanitize_filename on its own: SanitizeInit draws a name of at most      *)
(* MaxName characters and the function is applied to it with a max_length  *)
(* of MaxLength, which stands for the 200 of the source.                   *)
(***************************************************************************)
NameChars == {"a", " ", ".", "<", "\t"}

Names == SeqsUpTo(NameChars, MaxName)

\* the state of a job that has not started and holds neither url nor name
Idle ==
    /\ coord = "thread"
    /\ parsed = NotApplied
    /\ quality = 0
    /\ cancelled = FALSE
    /\ data = None
    /\ cur = "none"
    /\ total = 0
    /\ current = 0
    /\ remaining = [s \in Streams |-> Absent]
    /\ fs = [p \in Paths |-> Absent]
    /\ result = None
    /\ cancelAt = "never"
    /\ ops = [info |-> 0, manifest |-> 0, page_index |-> Absent,
              open |-> [s \in Streams |-> 0], read |-> 0, late |-> 0,
              ffmpeg |-> 0, returncode |-> Absent, events |-> 0]
    /\ progress = <<>>
    /\ finalBy = "none"
    /\ ret = [s \in Streams |-> "unopened"]
    /\ selected = [best_video |-> NotApplied, video |-> NotApplied,
                   audio |-> NotApplied]
    /\ url = NotApplied

SanitizeInit ==
    /\ Idle
    /\ jobs = NotApplied
    /\ gui = NotApplied
    /\ pair = NotApplied
    /\ page = 1
    /\ npages = Absent
    /\ pc = "sanitize"
    /\ \E filename \in Names :
           naming = [filename |-> filename, max_length |-> MaxLength,
                     result |-> NotApplied]

San_sanitize_filename ==
    /\ pc = "sanitize"
    /\ naming' = [naming EXCEPT
                      !.result = sanitize_filename(naming.filename, naming.max_length)]
    /\ pc' = "sanitized"
    /\ UNCHANGED <<inputs, selected, url, jobs, gui, pair, page, cancelled, npages, data, cur, dl,
                   fs, result, cancelAt, ops, progress, finalBy, ret>>

SanitizeNext ==
    \/ San_sanitize_filename

SanitizeSpec == SanitizeInit /\ [][SanitizeNext]_vars

(***************************************************************************)
(* The naming of the final file on its own: NameInit draws the title, the  *)
(* number of pages, the page and its part name, and the branch the job     *)
(* takes (single stream or DASH).                                          *)
(***************************************************************************)
TitleChars == {"a", " ", "<"}

Titles == {<<>>} \cup {<<text>> : text \in SeqsUpTo(TitleChars, MaxTitle)}

NameInit ==
    /\ Idle
    /\ jobs = NotApplied
    /\ gui = NotApplied
    /\ pair = NotApplied
    /\ npages \in 1..MaxPages
    /\ page \in 1..npages
    /\ pc \in {"name_single", "name_dash"}
    /\ \E title \in Titles, part \in Titles :
           naming = [title |-> title, part |-> part, filename |-> NotApplied,
                     final_output |-> NotApplied]

\* lines 205-211
Name_single ==
    /\ pc = "name_single"
    /\ LET filename == file_name(title_of(naming.title), npages, page,
                                 part_name_of(naming.part, page))
       IN  naming' = [naming EXCEPT
                          !.filename = filename,
                          !.final_output = filename \o <<".", "m", "p", "4">>]
    /\ pc' = "named"
    /\ UNCHANGED <<inputs, selected, url, jobs, gui, pair, page, cancelled, npages, data, cur, dl,
                   fs, result, cancelAt, ops, progress, finalBy, ret>>

\* lines 236-246
Name_dash ==
    /\ pc = "name_dash"
    /\ LET filename == file_name(title_of(naming.title), npages, page,
                                 part_name_of(naming.part, page))
       IN  naming' = [naming EXCEPT
                          !.filename = filename,
                          !.final_output = filename \o <<".", "m", "p", "4">>]
    /\ pc' = "named"
    /\ UNCHANGED <<inputs, selected, url, jobs, gui, pair, page, cancelled, npages, data, cur, dl,
                   fs, result, cancelAt, ops, progress, finalBy, ret>>

NameNext ==
    \/ Name_single
    \/ Name_dash

NameSpec == NameInit /\ [][NameNext]_vars

(***************************************************************************)
(* Two jobs at the same time (two processes, or the command line beside    *)
(* the window): which paths each writes while it downloads.  An item is    *)
(* named by the kind of answer get_download_url gives for it.              *)
(***************************************************************************)
JobIds == {1, 2}

Items == {"durl", "dash"}

OutputDirs == {"downloads", "elsewhere"}

CACHE_DIR == "cache"

JobsInit ==
    /\ Idle
    /\ gui = NotApplied
    /\ pair = NotApplied
    /\ naming = NotApplied
    /\ page = 1
    /\ npages = Absent
    /\ pc = "jobs"
    /\ \E item \in [JobIds -> Items], output_dir \in [JobIds -> OutputDirs] :
           jobs = [job |-> [j \in JobIds |->
                               [pc |-> "start", item |-> item[j],
                                output_dir |-> output_dir[j], temp_video |-> None,
                                temp_audio |-> None, final_output |-> None,
                                chunks |-> 0]],
                   uuids |-> 0,
                   writes |-> {}]

JobsUnchanged ==
    UNCHANGED <<inputs, selected, url, naming, gui, pair, page, cancelled, pc, npages,
                data, cur, dl, fs, result, cancelAt, ops, progress, finalBy, ret>>

\* the file _download_stream_with_progress is given by the job
JobDest(job) ==
    CASE job.pc = "single" -> job.final_output
      [] job.pc = "video" -> job.temp_video
      [] job.pc = "audio" -> job.temp_audio

\* lines 197-211: the final path is made of the output directory and the item's
\* name, and the stream is downloaded to it
Job_single_paths(j) ==
    LET job == jobs.job[j]
    IN  /\ job.pc = "start"
        /\ job.item = "durl"
        /\ jobs' = [jobs EXCEPT
                        !.job[j].final_output = <<job.output_dir, job.item, "mp4">>,
                        !.job[j].pc = "single"]
        /\ JobsUnchanged

\* lines 236-246: uuid.uuid4() gives a name no earlier call gave
Job_dash_paths(j) ==
    LET job == jobs.job[j]
    IN  /\ job.pc = "start"
        /\ job.item = "dash"
        /\ jobs' = [jobs EXCEPT
                        !.job[j].temp_video = <<CACHE_DIR, jobs.uuids + 1, "m4v">>,
                        !.job[j].temp_audio = <<CACHE_DIR, jobs.uuids + 2, "m4a">>,
                        !.job[j].final_output = <<job.output_dir, job.item, "mp4">>,
                        !.job[j].pc = "video",
                        !.uuids = jobs.uuids + 2]
        /\ JobsUnchanged

\* lines 353-357: a chunk is written to the file the download was given
Job_write(j) ==
    LET job == jobs.job[j]
    IN  /\ job.pc \in {"single", "video", "audio"}
        /\ job.chunks < MaxChunk
        /\ jobs' = [jobs EXCEPT
                        !.job[j].chunks = job.chunks + 1,
                        !.writes = jobs.writes \cup {<<j, JobDest(job)>>}]
        /\ JobsUnchanged

\* the download returns
Job_downloaded(j) ==
    LET job == jobs.job[j]
    IN  /\ job.pc \in {"single", "video", "audio"}
        /\ jobs' = [jobs EXCEPT
                        !.job[j].chunks = 0,
                        !.job[j].pc = CASE job.pc = "single" -> "done"
                                        [] job.pc = "video" -> "audio"
                                        [] job.pc = "audio" -> "merge"]
        /\ JobsUnchanged

\* lines 279-286: the download is over when ffmpeg makes the final file
Job_merge(j) ==
    LET job == jobs.job[j]
    IN  /\ job.pc = "merge"
        /\ jobs' = [jobs EXCEPT !.job[j].pc = "done"]
        /\ JobsUnchanged

JobsNext ==
    \E j \in JobIds :
        \/ Job_single_paths(j)
        \/ Job_dash_paths(j)
        \/ Job_write(j)
        \/ Job_downloaded(j)
        \/ Job_merge(j)

JobsSpec == JobsInit /\ [][JobsNext]_vars

(***************************************************************************)
(* MainWindow and its download threads.  The handlers run one at a time on *)
(* the GUI thread; a DownloadThread stops running when run() returns.      *)
(***************************************************************************)
GuiInit ==
    /\ Idle
    /\ naming = NotApplied
    /\ jobs = NotApplied
    /\ page = 1
    /\ npages = Absent
    /\ pc = "gui"
    /\ gui = [video_info |-> FALSE, threads |-> <<>>, starts |-> 0]
    /\ pair = NotApplied

GuiUnchanged ==
    UNCHANGED <<inputs, selected, url, naming, jobs, pair, page, cancelled, pc, npages,
                data, cur, dl, fs, result, cancelAt, ops, progress, finalBy, ret>>

\* self._download_thread and self._download_thread.isRunning()
DownloadThreadIsRunning(g) ==
    g.threads # <<>> /\ g.threads[Len(g.threads)].running

\* _on_fetch_finished: self._video_info = info
Gui_on_fetch_finished ==
    /\ ~gui.video_info
    /\ gui' = [gui EXCEPT !.video_info = TRUE]
    /\ GuiUnchanged

\* _start_download that does not ask whether a thread is running
Gui_start_downloadUnguarded ==
    /\ gui.starts < MaxStarts
    /\ IF ~gui.video_info
       THEN gui' = [gui EXCEPT !.starts = @ + 1]
       ELSE gui' = [gui EXCEPT
                        !.starts = @ + 1,
                        !.threads = Append(@, [running |-> TRUE, cancelled |-> FALSE])]
    /\ GuiUnchanged

\* _start_download: a request for a start
Gui_start_download ==
    /\ gui.starts < MaxStarts
    /\ IF ~gui.video_info \/ DownloadThreadIsRunning(gui)
       THEN gui' = [gui EXCEPT !.starts = @ + 1]
       ELSE gui' = [gui EXCEPT
                        !.starts = @ + 1,
                        !.threads = Append(@, [running |-> TRUE, cancelled |-> FALSE])]
    /\ GuiUnchanged

\* _cancel_download, when it does something
Gui_cancel_download ==
    /\ DownloadThreadIsRunning(gui)
    /\ ~gui.threads[Len(gui.threads)].cancelled
    /\ gui' = [gui EXCEPT !.threads[Len(gui.threads)].cancelled = TRUE]
    /\ GuiUnchanged

\* run() of a thread returns
Thread_run_returns ==
    /\ \E i \in 1..Len(gui.threads) :
           /\ gui.threads[i].running
           /\ gui' = [gui EXCEPT !.threads[i].running = FALSE]
    /\ GuiUnchanged

GuiNext ==
    \/ Gui_on_fetch_finished
    \/ Gui_start_download
    \/ Gui_cancel_download
    \/ Thread_run_returns

GuiSpec == GuiInit /\ [][GuiNext]_vars

(***************************************************************************)
(* The two coordinators side by side: DownloadThread._download, with       *)
(* automatic quality and a cancel flag that is never set, and              *)
(* download_video_async, called with the same url and page against one     *)
(* environment. Each coordinator is the function of the environment's      *)
(* answers that its code computes: it stands at the question it awaits     *)
(* (Ask) or at what it reports (Report); an answer, once given, is the     *)
(* answer for both. What the coordinators do to the files is the subject   *)
(* of Spec.                                                                *)
(***************************************************************************)
\* no answer yet
Unasked == [unasked |-> TRUE]

\* the call raised an exception
Raised == [raised |-> TRUE]

Ask(operation, page_index, stream_url) ==
    [ask |-> operation, page_index |-> page_index, url |-> stream_url]

\* report: "True", "False", or "raise" for an exception that leaves the coroutine;
\* video and audio: the selected streams (NotApplied before the selection);
\* final: <<final_output>>, <<>> before it is computed
Report(report, video, audio, final) ==
    [report |-> report, video |-> video, audio |-> audio, final |-> final]

IsAsk(position, operation) == "ask" \in DOMAIN position /\ position.ask = operation

IsReport(position) == "report" \in DOMAIN position

\* the answers of get_info: len(pages), and the title and the part name of the
\* page, both absent or both present
PairInfos ==
    { [npages |-> n, title |-> t[1], part |-> t[2]] :
        n \in 0..MaxPages,
        t \in { <<<<>>, <<>>>>, << <<<<"a", "<">>>>, <<<<"b">>>> >> } }

\* the urls of the manifests' streams
PairUrls == {"flv", "v120hev", "v80avc_backup", "a192"}

\* a transport's behaviour for one url: the content length it announces, the bytes
\* it delivers, in chunks as large as can be, and what follows them: an exception
\* (fails) or the empty chunk
PairScripts ==
    [total : 0..MaxTotal, size : 0..MaxStream, fails : BOOLEAN]

\* check_ffmpeg's answer and ffmpeg's exit code
PairMerges ==
    { [available |-> FALSE, returncode |-> Absent],
      [available |-> TRUE, returncode |-> 0],
      [available |-> TRUE, returncode |-> 1] }

\* merge_video_audio's return value
merge_video_audio(answer) == answer.available /\ answer.returncode = 0

\* output_dir / f"{filename}.mp4"
final_output(info, page_no) ==
    << file_name(title_of(info.title), info.npages, page_no,
                 part_name_of(info.part, page_no))
       \o <<".", "m", "p", "4">> >>

\* the loop of download_stream, after `current` bytes, with `left` still to come
RECURSIVE download_stream_loop(_, _, _)
download_stream_loop(script, current_bytes, left) ==
    IF ~(current_bytes < script.total) THEN TRUE
    ELSE IF left = 0 THEN ~script.fails
    ELSE download_stream_loop(script, current_bytes + Min(MaxChunk, left),
                              left - Min(MaxChunk, left))

\* download_stream that takes the empty chunk for an error
download_streamEmptyChunkFails(script) ==
    IF script = Raised THEN FALSE
    ELSE script.size >= script.total

download_stream(script) ==
    IF script = Raised THEN FALSE
    ELSE download_stream_loop(script, 0, script.size)

\* the loop of DownloadThread._download_stream_with_progress
RECURSIVE download_stream_with_progress_loop(_, _, _, _)
download_stream_with_progress_loop(script, flag, current_bytes, left) ==
    IF ~(current_bytes < script.total) THEN TRUE
    ELSE IF flag THEN FALSE
    ELSE IF left = 0 THEN ~script.fails
    ELSE download_stream_with_progress_loop(script, flag,
                                            current_bytes + Min(MaxChunk, left),
                                            left - Min(MaxChunk, left))

download_stream_with_progress(script, flag) ==
    IF script = Raised THEN FALSE
    ELSE download_stream_with_progress_loop(script, flag, 0, script.size)

\* download_video_async(url, output_dir, credential, page) against the answers e
download_video_async(e) ==
    IF NoIdentifier(e.parsed) THEN Report("False", NotApplied, NotApplied, <<>>)
    ELSE
    LET page_no == IF e.parsed.page > 1 THEN e.parsed.page ELSE e.page IN
    IF e.info = Unasked THEN Ask("get_info", Absent, "")
    ELSE IF e.info = Raised THEN Report("False", NotApplied, NotApplied, <<>>)
    ELSE IF page_no > e.info.npages THEN Report("False", NotApplied, NotApplied, <<>>)
    ELSE IF e.manifest = Unasked THEN Ask("get_download_url", page_no - 1, "")
    ELSE IF e.manifest = Raised THEN Report("False", NotApplied, NotApplied, <<>>)
    ELSE IF e.manifest.dash = None
    THEN IF e.manifest.durl = <<>> THEN Report("False", NotApplied, NotApplied, <<>>)
         ELSE
         LET stream_url == e.manifest.durl[1].url
             final == final_output(e.info, page_no)
         IN  IF e.transport[stream_url] = Unasked THEN Ask("download", Absent, stream_url)
             ELSE IF ~download_stream(e.transport[stream_url])
             THEN Report("False", NotApplied, NotApplied, final)
             ELSE Report("True", NotApplied, NotApplied, final)
    ELSE
    LET video == select_best_video_stream(e.manifest.dash)
        audio == select_best_audio_stream(e.manifest.dash)
    IN
    IF video = None THEN Report("False", video, audio, <<>>)
    ELSE
    LET v_url == get_stream_url(video)
        a_url == IF audio # None THEN get_stream_url(audio) ELSE ""
        final == final_output(e.info, page_no)
    IN
    IF v_url = "" THEN Report("False", video, audio, <<>>)
    ELSE IF e.transport[v_url] = Unasked THEN Ask("download", Absent, v_url)
    ELSE IF ~download_stream(e.transport[v_url]) THEN Report("False", video, audio, final)
    ELSE IF a_url # ""
    THEN IF e.transport[a_url] = Unasked THEN Ask("download", Absent, a_url)
         ELSE IF ~download_stream(e.transport[a_url])
         THEN Report("False", video, audio, final)
         ELSE IF e.merge = Unasked THEN Ask("merge", Absent, "")
         ELSE IF ~merge_video_audio(e.merge) THEN Report("False", video, audio, final)
         ELSE Report("True", video, audio, final)
    ELSE IF e.rename = Unasked THEN Ask("rename", Absent, "")
    ELSE IF e.rename.oserror THEN Report("raise", video, audio, final)
    ELSE Report("True", video, audio, final)

\* DownloadThread._download against the answers e; e.cancelled is self._cancelled,
\* e.quality is self.quality
DownloadThread_download(e) ==
    IF e.cancelled THEN Report("False", NotApplied, NotApplied, <<>>)
    ELSE IF NoIdentifier(e.parsed) THEN Report("False", NotApplied, NotApplied, <<>>)
    ELSE
    LET page_no == IF e.parsed.page > 1 THEN e.parsed.page ELSE e.page IN
    IF e.info = Unasked THEN Ask("get_info", Absent, "")
    ELSE IF e.info = Raised THEN Report("False", NotApplied, NotApplied, <<>>)
    ELSE IF e.cancelled THEN Report("False", NotApplied, NotApplied, <<>>)
    ELSE IF page_no > e.info.npages THEN Report("False", NotApplied, NotApplied, <<>>)
    ELSE IF e.manifest = Unasked THEN Ask("get_download_url", page_no - 1, "")
    ELSE IF e.manifest = Raised THEN Report("False", NotApplied, NotApplied, <<>>)
    ELSE IF e.cancelled THEN Report("False", NotApplied, NotApplied, <<>>)
    ELSE IF e.manifest.dash = None
    THEN IF e.manifest.durl = <<>> THEN Report("False", NotApplied, NotApplied, <<>>)
         ELSE
         LET stream_url == e.manifest.durl[1].url
             final == final_output(e.info, page_no)
         IN  IF e.transport[stream_url] = Unasked THEN Ask("download", Absent, stream_url)
             ELSE IF ~download_stream_with_progress(e.transport[stream_url], e.cancelled)
             THEN Report("False", NotApplied, NotApplied, final)
             ELSE Report("True", NotApplied, NotApplied, final)
    ELSE
    LET video == select_video_stream(e.quality, e.manifest.dash)
        audio == select_best_audio_stream(e.manifest.dash)
    IN
    IF video = None THEN Report("False", video, audio, <<>>)
    ELSE
    LET v_url == get_stream_url(video)
        a_url == IF audio # None THEN get_stream_url(audio) ELSE ""
        final == final_output(e.info, page_no)
    IN
    IF v_url = "" THEN Report("False", video, audio, <<>>)
    ELSE IF e.transport[v_url] = Unasked THEN Ask("download", Absent, v_url)
    ELSE IF ~download_stream_with_progress(e.transport[v_url], e.cancelled)
    THEN Report("False", video, audio, final)
    ELSE IF e.cancelled THEN Report("False", video, audio, final)
    ELSE IF a_url # ""
    THEN IF e.transport[a_url] = Unasked THEN Ask("download", Absent, a_url)
         ELSE IF ~download_stream_with_progress(e.transport[a_url], e.cancelled)
         THEN Report("False", video, audio, final)
         ELSE IF e.cancelled THEN Report("False", video, audio, final)
         ELSE IF e.merge = Unasked THEN Ask("merge", Absent, "")
         ELSE IF ~merge_video_audio(e.merge) THEN Report("False", video, audio, final)
         ELSE Report("True", video, audio, final)
    ELSE IF e.rename = Unasked THEN Ask("rename", Absent, "")
    ELSE IF e.rename.oserror THEN Report("raise", video, audio, final)
    ELSE Report("True", video, audio, final)

PairInit ==
    /\ Idle
    /\ naming = NotApplied
    /\ jobs = NotApplied
    /\ gui = NotApplied
    /\ page = 1
    /\ npages = Absent
    /\ pc = "pair"
    /\ \E ref \in ParseResults, page_arg \in 1..MaxPages :
         pair = [env |-> [parsed |-> ref, page |-> page_arg, quality |-> 0,
                          cancelled |-> FALSE, info |-> Unasked, manifest |-> Unasked,
                          transport |-> [u \in PairUrls |-> Unasked],
                          merge |-> Unasked, rename |-> Unasked],
                 thread |-> NotApplied,
                 async |-> NotApplied]

PairUnchanged ==
    UNCHANGED <<inputs, selected, url, naming, jobs, gui, page, cancelled, pc, npages,
                data, cur, dl, fs, result, cancelAt, ops, progress, finalBy, ret>>

\* both coordinators go on with the answers e
Answered(e) ==
    pair' = [env |-> e,
             thread |-> DownloadThread_download(e),
             async |-> download_video_async(e)]

Awaited(operation) ==
    IsAsk(pair.thread, operation) \/ IsAsk(pair.async, operation)

\* DownloadThread.run and download_video are called
Pair_call ==
    /\ pair.thread = NotApplied
    /\ Answered(pair.env)
    /\ PairUnchanged

\* v.get_info()
Pair_get_info ==
    /\ Awaited("get_info")
    /\ \E answer \in {Raised} \cup PairInfos :
         Answered([pair.env EXCEPT !.info = answer])
    /\ PairUnchanged

\* v.get_download_url(page_index)
Pair_get_download_url ==
    /\ Awaited("get_download_url")
    /\ \E answer \in {Raised} \cup Manifests :
         Answered([pair.env EXCEPT !.manifest = answer])
    /\ PairUnchanged

\* client.download_create(url), download_content_length and the download_chunk calls
Pair_download ==
    /\ Awaited("download")
    /\ \E u \in PairUrls, answer \in {Raised} \cup PairScripts :
         /\ \/ pair.thread = Ask("download", Absent, u)
            \/ pair.async = Ask("download", Absent, u)
         /\ Answered([pair.env EXCEPT !.transport[u] = answer])
    /\ PairUnchanged

\* check_ffmpeg() and subprocess.run(ffmpeg) in merge_video_audio
Pair_merge ==
    /\ Awaited("merge")
    /\ \E answer \in PairMerges :
         Answered([pair.env EXCEPT !.merge = answer])
    /\ PairUnchanged

\* temp_video.rename(final_output)
Pair_rename ==
    /\ Awaited("rename")
    /\ \E answer \in {[oserror |-> FALSE], [oserror |-> TRUE]} :
         Answered([pair.env EXCEPT !.rename = answer])
    /\ PairUnchanged

PairNext ==
    \/ Pair_call
    \/ Pair_get_info
    \/ Pair_get_download_url
    \/ Pair_download
    \/ Pair_merge
    \/ Pair_rename

PairSpec == PairInit /\ [][PairNext]_vars

(***************************************************************************)
(* The reported outcome, as MainWindow._on_download_finished reads it.     *)
(***************************************************************************)
Done == pc = "done"
Completed == Done /\ result.ok
Cancelled == Done /\ ~result.ok /\ result.msg = "cancelled"
Failed == Done /\ ~result.ok /\ result.msg # "cancelled"

\* a stream download is under way
DownloadPcs == {"open", "loop", "chunk_call", "chunk_wait"}

(***************************************************************************)
(* The claims.                                                             *)
(***************************************************************************)

\* C1: a job one of whose stream downloads left its chunk loop because the
\* cancel flag was set reports the cancellation outcome, never Completed and
\* never a failure such as "video stream download failed".
C1_CancelInLoopReportsCancelled ==
    (Done /\ \E s \in Streams : ret[s] = "cancel") => Cancelled

\* C2: when cancel() was called during a stream download, the terminated job
\* has left no partial file: no temp video file, no temp audio file, and no
\* partially written destination file of an interrupted download.
C2_NoPartialFileAfterCancel ==
    (Done /\ cancelAt \in DownloadPcs) =>
        /\ fs["temp_video"] = Absent
        /\ fs["temp_audio"] = Absent
        /\ (Completed \/ fs["final"] = Absent)

\* C3: a job that ended Cancelled or Failed has left no file at the final
\* output path.
C3_NoFinalFileUnlessCompleted ==
    (Cancelled \/ Failed) => fs["final"] = Absent

\* C4 (as claimed): once the cancel flag is set, download_chunk is not called again.
C4_NoReadCalledAfterCancel ==
    [][cancelled => ops'.read = ops.read]_vars

\* C4 (amended): once the cancel flag is set, download_chunk is called at most
\* once more (by an iteration that had passed its check of the flag), and a
\* loop iteration that checks the flag afterwards leaves the loop.
C4_AtMostOneReadAfterCancel ==
    [][/\ ops'.late <= 1
       /\ (cancelled /\ pc = "loop") => pc' \notin {"chunk_call", "chunk_wait", "loop"}]_vars

\* a download_chunk call was made after the flag was set
C4_Witness == ops.late = 1 /\ pc = "done"

\* C5: once cancel() has been called, the mux command is not run.
C5_NoMergeAfterCancel ==
    [][cancelled => ops'.ffmpeg = ops.ffmpeg]_vars

\* C6: a stream download that returned success has read the stream up to its
\* end: the transport has nothing left to deliver.
C6_SuccessOnlyAtEndOfStream ==
    \A s \in Streams : Succeeded(ret[s]) => remaining[s] = 0

\* C7: a DASH job whose video or audio download met a transport failure ends
\* with no temp file left, under both coordinators.
C7_NoTempFileAfterTransportFailure ==
    (Done /\ \E s \in {"video", "audio"} : ret[s] = "error") =>
        fs["temp_video"] = Absent /\ fs["temp_audio"] = Absent

\* C8: the received value of a progress event never exceeds a nonzero total.
C8_ReceivedWithinTotal ==
    (progress # <<>> /\ progress[2] > 0) => progress[1] <= progress[2]

\* C9: the mux command runs only after the video and the audio download both
\* returned success; a completed job without a separate audio download
\* (single-stream manifest, or no audio URL) never ran it and got its final
\* file by rename.
C9_MergeOnlyAfterBothElseRename ==
    /\ ops.ffmpeg > 0 => Succeeded(ret["video"]) /\ Succeeded(ret["audio"])
    /\ (Completed /\ (data.dash = None \/ audio_url(data) = "")) =>
            ops.ffmpeg = 0 /\ finalBy = "rename"

\* C10: no operation is performed twice, and after a stage has failed the job
\* is over and no operation of a later stage has been performed.
C10_FirstFailureEndsJob ==
    /\ ops.info <= 1 /\ ops.manifest <= 1 /\ ops.ffmpeg <= 1
    /\ \A s \in Streams : ops.open[s] <= 1
    /\ ret["single"] = "error" => Done /\ ops.ffmpeg = 0
    /\ ret["video"] = "error" => Done /\ ops.open["audio"] = 0 /\ ops.ffmpeg = 0
    /\ ret["audio"] = "error" => Done /\ ops.ffmpeg = 0
    /\ (Done /\ result.msg = "parse_failed") =>
            ops.info = 0 /\ ops.manifest = 0
    /\ (Done /\ result.msg \in {"info_failed", "page_missing"}) =>
            ops.info = 1 /\ ops.manifest = 0
    /\ (Done /\ result.msg \in {"parse_failed", "info_failed", "page_missing",
                                "manifest_failed", "no_stream", "no_video_url"}) =>
            /\ \A s \in Streams : ops.open[s] = 0
            /\ ops.read = 0
            /\ ops.ffmpeg = 0
            /\ \A p \in Paths : fs[p] = Absent
    /\ (Done /\ result.msg \in {"single_failed", "video_failed"}) =>
            ops.open["audio"] = 0 /\ ops.ffmpeg = 0
    /\ (Done /\ result.msg = "audio_failed") => ops.ffmpeg = 0

\* the video download failed after the metadata stages succeeded
C10_Witness ==
    /\ Done
    /\ ret["video"] = "error"
    /\ result.msg = "video_failed"
    /\ ops.info = 1 /\ ops.manifest = 1 /\ ops.open["video"] = 1

\* C11: when a job with two separate streams reports Completed, both temp input
\* files are gone and the one file the job produced is at the final output path
C11_MergedJobLeavesOnlyFinalFile ==
    (Completed /\ ops.ffmpeg > 0) =>
        /\ fs["temp_video"] = Absent
        /\ fs["temp_audio"] = Absent
        /\ fs["final"] # Absent
        /\ finalBy = "merge"

C11_Witness ==
    /\ Completed
    /\ ops.returncode = 0
    /\ fs["final"] = 2 * MaxStream
    /\ fs["temp_video"] = Absent

\* C12: when ffmpeg cannot be invoked the merge fails without running the mux
\* command and the file system stays as it was: both inputs still exist with
\* their content and nothing is written at the output path
C12_MissingToolLeavesFilesAlone ==
    [][(pc = "merge_check" /\ pc' = "done") =>
          /\ ~result'.ok
          /\ ops'.ffmpeg = ops.ffmpeg
          /\ fs' = fs
          /\ fs'["temp_video"] # Absent
          /\ fs'["temp_audio"] # Absent
          /\ fs'["final"] = Absent]_vars

C12_Witness ==
    /\ Done
    /\ result.msg = "merge_failed"
    /\ ops.ffmpeg = 0
    /\ fs["temp_video"] = MaxStream
    /\ fs["temp_audio"] = 1

\* C13: when the mux command exits non-zero the merge returns failure, both
\* input temp files stay in place and the job ends Failed, never Completed
C13_FailedMuxKeepsInputs ==
    [][(pc = "merge_run" /\ ops'.returncode = 1) =>
          /\ pc' = "done"
          /\ ~result'.ok
          /\ result'.msg = "merge_failed"
          /\ fs'["temp_video"] = fs["temp_video"]
          /\ fs'["temp_audio"] = fs["temp_audio"]
          /\ fs'["temp_video"] # Absent
          /\ fs'["temp_audio"] # Absent]_vars

C13_Witness ==
    /\ Failed
    /\ ops.returncode = 1
    /\ fs["temp_video"] = 1
    /\ fs["temp_audio"] = MaxStream

\* C14: in every terminal state of a job, a failed merge and a failed rename
\* included, no temp file the job created remains
C14_NoTempFileInTerminalState ==
    (Done /\ result.msg \in {"completed", "cancelled", "merge_failed", "exception"}) =>
        /\ fs["temp_video"] = Absent
        /\ fs["temp_audio"] = Absent

\* C15: a requested page beyond the pages getInfo reported ends the job with the
\* page-not-found outcome before the manifest is fetched and before any file is
\* created; otherwise the manifest is requested for exactly page index page - 1
C15_PageMissingElseExactIndex ==
    /\ (npages # Absent /\ page > npages) =>
          /\ Failed
          /\ result.msg = "page_missing"
          /\ ops.manifest = 0
          /\ \A p \in Paths : fs[p] = Absent
    /\ (npages # Absent /\ page <= npages /\ pc # "get_manifest") =>
          /\ ops.manifest = 1
          /\ ops.page_index = page - 1

\* C15, amended: as above, except that a cancel() called before getInfo returned
\* ends the job as Cancelled, in both cases without a manifest request
C15_PageMissingElseExactIndexUnlessCancelled ==
    /\ (npages # Absent /\ page > npages) =>
          /\ Done
          /\ ~result.ok
          /\ result.msg = IF cancelled THEN "cancelled" ELSE "page_missing"
          /\ ops.manifest = 0
          /\ ops.page_index = Absent
          /\ \A p \in Paths : fs[p] = Absent
    /\ (npages # Absent /\ page <= npages /\ pc # "get_manifest") =>
          IF ops.manifest = 0
          THEN Cancelled /\ cancelAt = "get_info" /\ \A p \in Paths : fs[p] = Absent
          ELSE ops.manifest = 1 /\ ops.page_index = page - 1
    /\ ops.manifest > 0 => (npages # Absent /\ page <= npages)

C15_Witness ==
    /\ Failed
    /\ result.msg = "page_missing"
    /\ page = MaxPages
    /\ npages = MaxPages - 1

C17_BestQualityIsSelected ==
    (selected.best_video # NotApplied /\ data.dash.video # <<>>) =>
        LET vs == data.dash.video
            r == selected.best_video
            Known(s) == InTable(VIDEO_QUALITY_PRIORITY, s.id)
            Index(s) == IndexOf(VIDEO_QUALITY_PRIORITY, s.id)
        IN  /\ \E i \in 1..Len(vs) : vs[i] = r
            /\ \A i \in 1..Len(vs) :
                  Known(vs[i]) => (Known(r) /\ Index(r) <= Index(vs[i]))
            /\ ~Known(r) => \A i \in 1..Len(vs) : ~Known(vs[i])

C17_Witness ==
    /\ selected.best_video # NotApplied
    /\ Len(data.dash.video) = MaxVideos
    /\ data.dash.video[1].id = Missing
    /\ data.dash.video[2].id = 80
    /\ data.dash.video[MaxVideos].id = 120
    /\ selected.best_video.id = 120

\* C18: among the streams that share the selected stream's quality rank, the
\* selected one has the lowest codec rank (first of hev, av01, avc contained in
\* the lower-cased codec string); one with an unmatched codec only if none of
\* them has a matched one
C18_BestCodecAmongTied ==
    (selected.best_video # NotApplied /\ data.dash.video # <<>>) =>
        LET vs == data.dash.video
            r == selected.best_video
            Tied(s) == Get(s.id, 0) = Get(r.id, 0)
                       \/ (~InTable(VIDEO_QUALITY_PRIORITY, Get(s.id, 0))
                           /\ ~InTable(VIDEO_QUALITY_PRIORITY, Get(r.id, 0)))
        IN  /\ \A i \in 1..Len(vs) : Tied(vs[i]) => codec_rank(r) <= codec_rank(vs[i])
            /\ codec_rank(r) = Sentinel =>
                  \A i \in 1..Len(vs) : Tied(vs[i]) => codec_rank(vs[i]) = Sentinel
            /\ codec_rank(r) # Sentinel =>
                  /\ Contains(Lower(r.codecs), CODEC_PRIORITY[codec_rank(r) + 1])
                  /\ \A k \in 1..codec_rank(r) :
                        ~Contains(Lower(r.codecs), CODEC_PRIORITY[k])

C18_Witness ==
    /\ selected.best_video # NotApplied
    /\ Len(data.dash.video) = MaxVideos
    /\ data.dash.video[1] = Stream(80, Codecs("vp09"), "v", <<>>)
    /\ data.dash.video[2] = Stream(80, Codecs("AVC1"), "v", <<>>)
    /\ data.dash.video[MaxVideos] = Stream(Missing, Codecs("hev1"), "v", <<>>)
    /\ selected.best_video = Stream(80, Codecs("AVC1"), "v", <<>>)

\* C19: the audio stream select_best_audio_stream returns ranks at least as well
\* as every candidate (each standard stream, the lossless track, the first
\* spatial track); the lossless or spatial track is returned only when it ranks
\* strictly better than what was the best before it, never on equal rank
C19_BestAudioNeverReplacedOnEqualRank ==
    (selected.audio # NotApplied /\ selected.audio # None) =>
        LET d == data.dash
            r == selected.audio
            Rank(id) == IF InTable(AUDIO_QUALITY_PRIORITY, id)
                        THEN IndexOf(AUDIO_QUALITY_PRIORITY, id) ELSE Sentinel
            std == {Rank(Get(d.audio[i].id, 0)) : i \in 1..Len(d.audio)}
            flac == IF d.flac # None THEN {Rank(Get(d.flac.id, 30251))} ELSE {}
            dolby == IF d.dolby # <<>> THEN {Rank(Get(d.dolby[1].id, 30250))} ELSE {}
            rank == CASE r.base_url = "flac" -> Rank(Get(r.id, 30251))
                      [] r.base_url = "dolby" -> Rank(Get(r.id, 30250))
                      [] OTHER -> Rank(Get(r.id, 0))
        IN  /\ \/ \E i \in 1..Len(d.audio) : d.audio[i] = r
               \/ d.flac = r
               \/ (d.dolby # <<>> /\ d.dolby[1] = r)
            /\ \A x \in std \cup flac \cup dolby : rank <= x
            /\ r.base_url = "flac" => \A x \in std : rank < x
            /\ r.base_url = "dolby" => \A x \in std \cup flac : rank < x

C19_Witness ==
    /\ selected.audio # NotApplied
    /\ Len(data.dash.audio) = MaxAudios
    /\ data.dash.audio[MaxAudios].id = 30280
    /\ data.dash.flac # None
    /\ data.dash.flac.id = 30280
    /\ selected.audio = data.dash.audio[MaxAudios]

\* C20: with a specific quality id, _select_video_stream returns a stream of
\* exactly that id, of the lowest codec rank among the streams of that id, if
\* there is one; if there is none it returns what the automatic selection returns
C20_RequestedQualityElseBest ==
    (selected.video # NotApplied /\ quality # 0) =>
        LET vs == data.dash.video
            r == selected.video
            matching == {i \in 1..Len(vs) : vs[i].id = quality}
        IN  IF matching # {}
            THEN /\ r.id = quality
                 /\ \E i \in matching : vs[i] = r
                 /\ \A i \in matching : codec_rank(r) <= codec_rank(vs[i])
            ELSE r = selected.best_video

C20_Witness ==
    /\ selected.video # NotApplied
    /\ quality = 80
    /\ Len(data.dash.video) = MaxVideos
    /\ data.dash.video[1].id = 120
    /\ data.dash.video[2] = Stream(80, Codecs("AVC1"), "v", <<>>)
    /\ data.dash.video[MaxVideos] = Stream(80, Codecs("av01"), "v", <<>>)
    /\ selected.video = Stream(80, Codecs("av01"), "v", <<>>)
    /\ selected.best_video.id = 120

\* C21: a command-line download given a specific quality (-q) downloads a video
\* stream of that quality id when the manifest has one, not the best available
C21_CliDownloadsRequestedQuality ==
    (/\ coord = "async"
     /\ quality = 80
     /\ Succeeded(ret["video"])
     /\ \E i \in 1..Len(data.dash.video) : data.dash.video[i].id = quality)
    => video_stream(coord, quality, data).id = quality

\* C22: parse_video_url never sets both bvid and aid; it sets exactly one of them
\* whenever a recognition rule (raw BV id, raw av id, BV token in the URL path,
\* av token in the URL path) matches the input, and neither only when none matches
C22_OneIdIffARuleMatches ==
    pc = "parsed" =>
        LET u == Strip(url, Whitespace)
            path == urlparse(u).path
            matches == \/ IsRawBv(u)
                       \/ IsRawAv(u)
                       \/ bv_search(path) # <<>>
                       \/ av_search(path) # <<>>
            has_bvid == parsed.bvid # <<>>
            has_aid == parsed.aid # Missing
        IN  /\ ~(has_bvid /\ has_aid)
            /\ matches <=> (has_bvid \/ has_aid)

\* C23: for a URL whose path holds a BV token (or an av token) parse_video_url
\* returns that id, with the page the value of the query parameter p when p is
\* present and 1 when it is absent; the page of every result is at least 1
C23_PageIsPOrOneAndPositive ==
    pc = "parsed" =>
        LET u == Strip(url, Whitespace)
            parts == urlparse(u)
            bv == bv_search(parts.path)
            av == av_search(parts.path)
            p == QueryP(parts.query)
        IN  /\ parsed.page >= 1
            /\ (~IsRawBv(u) /\ ~IsRawAv(u) /\ (bv # <<>> \/ av # <<>>)) =>
                   /\ IF bv # <<>> THEN parsed.bvid = bv /\ parsed.aid = Missing
                      ELSE parsed.bvid = <<>> /\ parsed.aid = DigitsValue(av)
                   /\ p = <<>> => parsed.page = 1
                   /\ IntOk(p) => parsed.page = IntValue(p)

\* C24: the result of sanitize_filename holds none of the characters <>:"/\|?*
\* and no control character, has no leading or trailing space or dot, is at most
\* max_length long and is never empty
C24_SanitizedNameIsClean ==
    pc = "sanitized" =>
        LET r == naming.result
        IN  /\ \A i \in 1..Len(r) : r[i] \notin IllegalChars \cup ControlChars
            /\ r # <<>>
            /\ r[1] \notin {" ", "."}
            /\ r[Len(r)] \notin {" ", "."}
            /\ Len(r) <= naming.max_length

\* C27: the name of the final file is sanitize(title) when the item has exactly
\* one page and sanitize(title + "_P" + page + "_" + partName) when it has more,
\* in the single-stream branch and in the DASH branch alike
C27_PageSuffixIffSeveralPages ==
    pc = "named" =>
        LET title == title_of(naming.title)
            partName == part_name_of(naming.part, page)
            suffix == <<"_", "P">> \o Str(page) \o <<"_">> \o partName
        IN  /\ npages = 1 =>
                   naming.filename = sanitize_filename(title, DefaultMaxLength)
            /\ npages > 1 =>
                   naming.filename =
                       sanitize_filename(title \o suffix, DefaultMaxLength)
            /\ naming.final_output = naming.filename \o <<".", "m", "p", "4">>

C27_Witness ==
    /\ pc = "named"
    /\ npages = MaxPages
    /\ page = MaxPages
    /\ naming.title = << <<"a", "<">> >>
    /\ naming.part = << <<" ">> >>
    /\ naming.filename = <<"a", "_", "_", "P">> \o Str(MaxPages) \o <<"_">>

\* C25: of two jobs that run at the same time, neither writes, while it
\* downloads, a path the other writes while it downloads, and every download in
\* progress (DASH or single stream) is written to a file of the scratch directory
C25_DownloadsWriteDisjointScratchFiles ==
    jobs # NotApplied =>
        /\ \A w1 \in jobs.writes, w2 \in jobs.writes :
               w1[1] # w2[1] => w1[2] # w2[2]
        /\ \A w \in jobs.writes : w[2][1] = CACHE_DIR

\* C26: whenever a job reports Completed, a file exists at the final output path
\* and it holds every byte of the downloaded stream(s) up to end-of-stream: no
\* byte of a downloaded stream is left with the transport
C26_CompletedFileHoldsWholeStreams ==
    Completed =>
        /\ fs["final"] # Absent
        /\ \A s \in Streams : Succeeded(ret[s]) => remaining[s] = 0

\* C28: from every Merging state of the coordinator (the tool is being looked
\* for, or is about to run) the Cancelled terminal state and the Failed terminal
\* state are both reachable; a job in these states ends within three steps, a
\* cancel() among them or not
C28_CancelledAndFailedReachableFromMerging ==
    (coord = "thread" /\ pc \in {"merge_check", "merge_run"}) =>
        LET CancelledNext == ENABLED (Next /\ Cancelled')
            FailedNext == ENABLED (Next /\ Failed')
            CancelledInTwo == ENABLED (Next /\ (ENABLED (Next /\ Cancelled'))')
            FailedInTwo == ENABLED (Next /\ (ENABLED (Next /\ Failed'))')
            CancelledInThree ==
                ENABLED (Next /\ (ENABLED (Next /\ (ENABLED (Next /\ Cancelled'))'))')
        IN  /\ FailedNext \/ FailedInTwo
            /\ CancelledNext \/ CancelledInTwo \/ CancelledInThree

C30_EarliestOfEqualRankIsSelected ==
    /\ (selected.best_video # NotApplied /\ data.dash.video # <<>>) =>
           LET vs == data.dash.video
               Least(i) == \A j \in 1..Len(vs) : ~KeyLess(sort_key(vs[j]), sort_key(vs[i]))
               first == CHOOSE i \in 1..Len(vs) :
                            Least(i) /\ \A j \in 1..(i - 1) : ~Least(j)
           IN  selected.best_video = vs[first]
    /\ (/\ selected.audio # NotApplied
        /\ selected.audio # None
        /\ selected.audio.base_url \in {"a", "a2"}) =>
           LET as == data.dash.audio
               Rank(s) == IF InTable(AUDIO_QUALITY_PRIORITY, Get(s.id, 0))
                          THEN IndexOf(AUDIO_QUALITY_PRIORITY, Get(s.id, 0))
                          ELSE Sentinel
               Same(i) == Rank(as[i]) = Rank(selected.audio)
               first == CHOOSE i \in 1..Len(as) :
                            Same(i) /\ \A j \in 1..(i - 1) : ~Same(j)
           IN  selected.audio = as[first]

C30_Witness ==
    /\ selected.best_video # NotApplied
    /\ Len(data.dash.video) = MaxVideos
    /\ data.dash.video[1] = Stream(80, Codecs("AVC1"), "v", <<>>)
    /\ data.dash.video[2] = Stream(80, Codecs("hev1"), "v2", <<>>)
    /\ data.dash.video[MaxVideos] = Stream(80, Codecs("hev1"), "v", <<>>)
    /\ selected.best_video = Stream(80, Codecs("hev1"), "v2", <<>>)

\* C31: select_best_audio_stream returns a stream with an unknown id only if no
\* compared candidate (standard stream, lossless track, first spatial track) has
\* a known id, and the one returned is then the first standard stream: it was
\* adopted when nothing was chosen yet and no other unknown-id stream replaced it
C31_UnknownAudioOnlyAsFirstFallback ==
    (selected.audio # NotApplied /\ selected.audio # None) =>
        LET d == data.dash
            r == selected.audio
            Known(id) == InTable(AUDIO_QUALITY_PRIORITY, id)
            special == r.base_url \in {"flac", "dolby", "dolby2"}
            r_known == CASE r.base_url = "flac" -> Known(Get(r.id, 30251))
                         [] r.base_url \in {"dolby", "dolby2"} -> Known(Get(r.id, 30250))
                         [] OTHER -> Known(Get(r.id, 0))
        IN  /\ special => r_known
            /\ ~r_known =>
                  /\ d.audio # <<>>
                  /\ r = d.audio[1]
                  /\ \A i \in 1..Len(d.audio) : ~Known(Get(d.audio[i].id, 0))
                  /\ d.flac # None => ~Known(Get(d.flac.id, 30251))
                  /\ d.dolby # <<>> => ~Known(Get(d.dolby[1].id, 30250))
            /\ (\E i \in 1..Len(d.audio) : Known(Get(d.audio[i].id, 0))) => r_known

C31_Witness ==
    /\ selected.audio # NotApplied
    /\ Len(data.dash.audio) = MaxAudios
    /\ data.dash.audio[1] = Stream(Missing, Codecs("mp4a"), "a2", <<>>)
    /\ data.dash.audio[MaxAudios] = Stream(Missing, Codecs("mp4a"), "a", <<>>)
    /\ data.dash.flac = Stream(5, Codecs("mp4a"), "flac", <<>>)
    /\ data.dash.dolby # <<>>
    /\ data.dash.dolby[1].id = 5
    /\ selected.audio = Stream(Missing, Codecs("mp4a"), "a2", <<>>)

\* C32: select_best_audio_stream never returns an element of the spatial-audio
\* list other than the first, even when that element ranks strictly better than
\* every other candidate of the manifest
C32_OnlyFirstSpatialTrackIsCandidate ==
    selected.audio # NotApplied =>
        \A i \in 2..Len(data.dash.dolby) : selected.audio # data.dash.dolby[i]

C32_Witness ==
    /\ selected.audio # NotApplied
    /\ data.dash.audio = <<Stream(30216, Codecs("mp4a"), "a", <<>>)>>
    /\ data.dash.flac = None
    /\ Len(data.dash.dolby) = 2
    /\ data.dash.dolby[1].id = 5
    /\ data.dash.dolby[2].id = 30250
    /\ IndexOf(AUDIO_QUALITY_PRIORITY, 30250) < IndexOf(AUDIO_QUALITY_PRIORITY, 30216)
    /\ selected.audio = Stream(30216, Codecs("mp4a"), "a", <<>>)

\* C33: every run of a DownloadThread ends, and it reports exactly one outcome:
\* the job is done only with a reported result (success, failure, cancellation
\* or an exception that left the coordinator), and a result once reported is
\* never followed by another
C33_RunEndsWithOneOutcome ==
    /\ [](coord = "thread" => <>Done)
    /\ [](Done <=> result # None)
    /\ [][result # None => result' = result]_vars

C33_Witness ==
    /\ coord = "thread"
    /\ Done
    /\ result = [ok |-> FALSE, msg |-> "exception"]
    /\ ops.events = MaxStream

\* C34: a job that was not cancelled before it started ends with the parse
\* failure exactly when the parser recognised no identifier; every input resolved
\* to a bvid or to an aid (av0 included) goes on to the metadata fetch
C34_ParseFailureIffNoIdentifier ==
    (pc # "start" /\ cancelAt # "start") =>
        ((Done /\ result.msg = "parse_failed")
            <=> (parsed.bvid = "" /\ parsed.aid = Missing))

\* C35: a job whose cancel() came before it started ends Cancelled with no
\* metadata request made; a job whose cancel() came before the answer of getInfo
\* or of getManifest was examined ends Cancelled unless that request itself
\* failed; in all three cases no stream is opened and no file is created
C35_EarlyCancelOpensNothing ==
    cancelAt \in {"start", "get_info", "get_manifest"} =>
        /\ \A s \in Streams : ops.open[s] = 0
        /\ \A p \in Paths : fs[p] = Absent
        /\ cancelAt = "start" => ops.info = 0 /\ ops.manifest = 0
        /\ cancelAt = "get_info" => ops.manifest = 0
        /\ Done =>
              \/ Cancelled
              \/ cancelAt = "get_info" /\ result.msg = "info_failed"
              \/ cancelAt = "get_manifest" /\ result.msg = "manifest_failed"

C35_Witness ==
    /\ cancelAt = "get_manifest"
    /\ Cancelled
    /\ ops.info = 1
    /\ ops.manifest = 1
    /\ data = [dash |-> Dash(<<V80avc, V120hev>>, <<A192>>), durl |-> <<>>]

\* C36: a job that goes on from the parsed url takes the url's page as its page
\* when that is greater than 1 and keeps the caller's page otherwise; the page
\* does not change afterwards and it is the page whose manifest is asked for
C36_UrlPageOverridesOnlyAboveOne ==
    [][/\ (pc = "start" /\ pc' = "get_info") =>
              page' = IF parsed.page > 1 THEN parsed.page ELSE page
       /\ ~(pc = "start" /\ pc' = "get_info") => page' = page
       /\ ops'.manifest > ops.manifest => ops'.page_index = page - 1
    ]_vars

C36_Witness ==
    /\ pc = "done"
    /\ parsed.page = 1
    /\ page = MaxPages
    /\ ops.manifest = 1
    /\ ops.page_index = MaxPages - 1

C38_SanitizeIsIdempotent ==
    pc = "sanitized" =>
        sanitize_filename(naming.result, naming.max_length) = naming.result

\* C39: in the window at most one DownloadThread is running at any time; a start
\* request made while the download thread is running creates no thread and
\* changes none; and a cancel flag is only ever set on the window's current
\* thread while it is running
C39_OneRunningThread ==
    /\ [](gui # NotApplied =>
            Cardinality({i \in 1..Len(gui.threads) : gui.threads[i].running}) <= 1)
    /\ [][gui # NotApplied =>
            /\ (gui'.starts > gui.starts /\ DownloadThreadIsRunning(gui)) =>
                   gui'.threads = gui.threads
            /\ \A i \in 1..Len(gui'.threads) :
                   gui'.threads[i].cancelled =>
                       /\ i <= Len(gui.threads)
                       /\ \/ gui.threads[i].cancelled
                          \/ i = Len(gui.threads) /\ gui.threads[i].running
       ]_vars

C39_Witness ==
    /\ gui # NotApplied
    /\ Len(gui.threads) = 2
    /\ gui.threads[1] = [running |-> FALSE, cancelled |-> TRUE]
    /\ gui.threads[2] = [running |-> TRUE, cancelled |-> FALSE]
    /\ gui.starts = MaxStarts

\* C40: with automatic quality and no cancellation, DownloadThread._download and
\* download_video_async, given the same url and page and the same answers of
\* get_info, get_download_url, the transport, ffmpeg and rename, report the same
\* success or failure, have selected the same video and audio streams and have
\* computed the same final output path.
C40_CoordinatorsAgree ==
    (pair.env.quality = 0 /\ ~pair.env.cancelled
     /\ IsReport(pair.thread) /\ IsReport(pair.async))
    => /\ pair.thread.report = pair.async.report
       /\ pair.thread.video = pair.async.video
       /\ pair.thread.audio = pair.async.audio
       /\ pair.thread.final = pair.async.final

\* both coordinators report success for page 2 of a video of several pages, after
\* downloading the best video stream and the audio stream and merging them
C40_Witness ==
    /\ IsReport(pair.thread)
    /\ IsReport(pair.async)
    /\ pair.thread.report = "True"
    /\ pair.async.report = "True"
    /\ pair.env.manifest = [dash |-> Dash(<<V80avc, V120hev>>, <<A192>>), durl |-> <<>>]
    /\ pair.thread.video = V120hev
    /\ pair.thread.audio = A192
    /\ pair.env.merge # Unasked
    /\ pair.thread.final = << <<"a", "_", "_", "P", "2", "_", "b", ".", "m", "p", "4">> >>

====
